---------------------------- MODULE Spec2Model ----------------------------
(***************************************************************************)
(* Model of dxclparser (src/src/parser.rs, src/src/types.rs): the          *)
(* classifier ident_type, the per-variant extractors parse_dx .. and       *)
(* parse_tolocal, the RBN sub-parser parse_rbn and the field coercion      *)
(* helpers check_existence_*.  Lines are TLA+ strings; the patterns are    *)
(* the regular expressions of parser.rs written as syntax trees, matched   *)
(* by a backtracking matcher with the leftmost-first (greedy, first        *)
(* alternative first) semantics of the regex crate.                        *)
(***************************************************************************)
EXTENDS Integers, Sequences, FiniteSets, TLC

VARIABLES form, raw, fed, pc, res, json, back, once, lazy, compiled, th

vars == <<form, raw, fed, pc, res, json, back, once, lazy, compiled, th>>

\* the state of a single caller, and the state the threads share and own
lineVars == <<form, raw, fed, pc, res, json, back>>
lazyVars == <<once, lazy, compiled, th>>

(***************************************************************************)
(* Characters and character classes of the regex crate.                    *)
(***************************************************************************)
Ch(s, i) == IF i >= 1 /\ i <= Len(s) THEN SubSeq(s, i, i) ELSE ""

Upper == {"A","B","C","D","E","F","G","H","I","J","K","L","M",
          "N","O","P","Q","R","S","T","U","V","W","X","Y","Z"}

Lower == {"a","b","c","d","e","f","g","h","i","j","k","l","m",
          "n","o","p","q","r","s","t","u","v","w","x","y","z"}

Digits == {"0","1","2","3","4","5","6","7","8","9"}

\* \w on ASCII input: letters, digits and the underscore
WordChars == Upper \cup Lower \cup Digits \cup {"_"}

\* [A-Z0-9/\-#]
CallChars == Upper \cup Digits \cup {"/", "-", "#"}

\* [a-zA-z0-9]: the range A-z also holds the characters between Z and a (the
\* grave accent, which no input of the model holds, is left out)
ModeChars == Upper \cup Lower \cup Digits \cup {"[", "\\", "]", "^", "_"}

\* [a-zA-Z]
Letters == Upper \cup Lower

\* \s on ASCII input
SpaceChars == {" ", "\t", "\n", "\r", "\f"}

(***************************************************************************)
(* Regular expression syntax trees.                                        *)
(***************************************************************************)
Lit(str) == [t |-> "lit", s |-> str]
Set(cs) == [t |-> "set", cs |-> cs]
NotSet(cs) == [t |-> "nset", cs |-> cs]
AnyChar == [t |-> "any"]
Bol == [t |-> "bol"]
Eol == [t |-> "eol"]
WordB == [t |-> "wb"]
Cat(a) == [t |-> "cat", a |-> a]
Alt(a) == [t |-> "alt", a |-> a]
\* x{min,max}; max < 0 stands for no upper limit
Rep(r, min, max) == [t |-> "rep", r |-> r, min |-> min, max |-> max]
Star(r) == Rep(r, 0, 0 - 1)
Plus(r) == Rep(r, 1, 0 - 1)
Opt(r) == Rep(r, 0, 1)
AtLeast(r, n) == Rep(r, n, 0 - 1)
Grp(id, r) == [t |-> "grp", id |-> id, r |-> r]

NoCap == <<0, 0>>
NoMatch == [m |-> FALSE]

(***************************************************************************)
(* The matcher.  k is the sequence of nodes still to match at position i   *)
(* of s, c the capture slots filled so far.  The first way to match, in    *)
(* the order greedy repetition and alternation give, is the result.        *)
(***************************************************************************)
\* does the one-character node r accept the character ch (ch = "" past the end)
Accepts(r, ch) ==
    /\ ch # ""
    /\ CASE r.t = "set" -> ch \in r.cs
         [] r.t = "nset" -> ch \notin r.cs
         [] r.t = "any" -> ch # "\n"

OneChar(r) == r.t \in {"set", "nset", "any"}

\* how many characters from position i on the one-character node r accepts, at most lim
RECURSIVE RunLen(_, _, _, _)
RunLen(s, i, r, lim) ==
    IF lim = 0 \/ ~Accepts(r, Ch(s, i)) THEN 0 ELSE 1 + RunLen(s, i + 1, r, lim - 1)

RECURSIVE Run(_, _, _, _), Greedy(_, _, _, _, _, _)
Run(k, s, i, c) ==
    IF Len(k) = 0 THEN [m |-> TRUE, c |-> c]
    ELSE
    LET n == Head(k)
        rest == Tail(k)
    IN  CASE n.t = "lit" ->
               IF i + Len(n.s) - 1 <= Len(s) /\ SubSeq(s, i, i + Len(n.s) - 1) = n.s
               THEN Run(rest, s, i + Len(n.s), c) ELSE NoMatch
          [] OneChar(n) ->
               IF Accepts(n, Ch(s, i)) THEN Run(rest, s, i + 1, c) ELSE NoMatch
          [] n.t = "bol" -> IF i = 1 THEN Run(rest, s, i, c) ELSE NoMatch
          [] n.t = "eol" -> IF i = Len(s) + 1 THEN Run(rest, s, i, c) ELSE NoMatch
          [] n.t = "wb" ->
               IF (Ch(s, i - 1) \in WordChars) # (Ch(s, i) \in WordChars)
               THEN Run(rest, s, i, c) ELSE NoMatch
          [] n.t = "cat" -> Run(n.a \o rest, s, i, c)
          [] n.t = "alt" ->
               IF Len(n.a) = 0 THEN NoMatch
               ELSE LET g == Run(<<Head(n.a)>> \o rest, s, i, c)
                    IN  IF g.m THEN g ELSE Run(<<Alt(Tail(n.a))>> \o rest, s, i, c)
          [] n.t = "rep" /\ OneChar(n.r) ->
               \* greedy repetition of one character: the longest run first, then
               \* shorter ones, down to min
               LET avail == Len(s) - i + 1
                   lim == IF n.max < 0 \/ n.max > avail THEN avail ELSE n.max
               IN  Greedy(rest, s, i, c, RunLen(s, i, n.r, lim), n.min)
          [] n.t = "rep" /\ ~OneChar(n.r) ->
               LET less == Rep(n.r, IF n.min > 0 THEN n.min - 1 ELSE 0,
                                    IF n.max > 0 THEN n.max - 1 ELSE n.max)
               IN  IF n.min > 0 THEN Run(<<n.r, less>> \o rest, s, i, c)
                   ELSE IF n.max = 0 THEN Run(rest, s, i, c)
                   ELSE LET g == IF n.max < 0
                                 THEN Run(<<n.r, [t |-> "adv", from |-> i], less>> \o rest, s, i, c)
                                 ELSE Run(<<n.r, less>> \o rest, s, i, c)
                        IN  IF g.m THEN g ELSE Run(rest, s, i, c)
          [] n.t = "adv" -> IF i > n.from THEN Run(rest, s, i, c) ELSE NoMatch
          [] n.t = "grp" ->
               Run(<<n.r, [t |-> "end", id |-> n.id, from |-> i]>> \o rest, s, i, c)
          [] n.t = "end" -> Run(rest, s, i, [c EXCEPT ![n.id] = <<n.from, i>>])

\* the rest k of the pattern after j repeated characters, j from the longest run down to min
Greedy(k, s, i, c, j, min) ==
    IF j < min THEN NoMatch
    ELSE LET g == Run(k, s, i + j, c)
         IN  IF g.m THEN g ELSE Greedy(k, s, i, c, j - 1, min)

RECURSIVE SearchFrom(_, _, _)
SearchFrom(re, s, i) ==
    IF i > Len(s) + 1 THEN NoMatch
    ELSE LET g == Run(<<re.r>>, s, i, [j \in 1..re.ng |-> NoCap])
         IN  IF g.m THEN [m |-> TRUE, c |-> g.c, s |-> s] ELSE SearchFrom(re, s, i + 1)

\* Regex::captures
Captures(re, s) == SearchFrom(re, s, 1)

(***************************************************************************)
(* Results and options (Result<T, ParseError>, Option<T>).                 *)
(***************************************************************************)
Ok(v) == [ok |-> TRUE, val |-> v]
Err(e) == [ok |-> FALSE, err |-> e]
Some(v) == [some |-> TRUE, v |-> v]
None == [some |-> FALSE]

(***************************************************************************)
(* str::parse for the integer types (core::num, from_str_radix with radix  *)
(* 10): an optional sign ('-' only for a signed type), then one or more    *)
(* ASCII digits, the value within the range of the type.                   *)
(***************************************************************************)
DigitVal(d) ==
    CASE d = "0" -> 0 [] d = "1" -> 1 [] d = "2" -> 2 [] d = "3" -> 3 [] d = "4" -> 4
      [] d = "5" -> 5 [] d = "6" -> 6 [] d = "7" -> 7 [] d = "8" -> 8 [] d = "9" -> 9

AllDigits(str) == \A i \in 1..Len(str) : Ch(str, i) \in Digits

RECURSIVE DecValue(_)
DecValue(str) ==
    IF Len(str) = 0 THEN 0
    ELSE 10 * DecValue(SubSeq(str, 1, Len(str) - 1)) + DigitVal(Ch(str, Len(str)))

\* every integer type with the range of u8
IntRange_byte(ty) == [lo |-> 0, hi |-> 255]

\* the integer types the parser reads: their least and greatest values
IntRange(ty) ==
    CASE ty = "u8" -> [lo |-> 0, hi |-> 255]
      [] ty = "u16" -> [lo |-> 0, hi |-> 65535]
      [] ty = "i16" -> [lo |-> 0 - 32768, hi |-> 32767]

\* the sign a number of type ty may begin with, "" when str has none
IntSign(ty, str) ==
    IF Ch(str, 1) = "+" \/ (IntRange(ty).lo < 0 /\ Ch(str, 1) = "-") THEN Ch(str, 1) ELSE ""

IntRanged(ty, v) ==
    IF v < IntRange(ty).lo \/ v > IntRange(ty).hi THEN Err("ParseIntError") ELSE Ok(v)

\* the captures read as integers hold at most four characters
IntSigned(ty, sign, digits) ==
    IF Len(digits) = 0 \/ ~AllDigits(digits) THEN Err("ParseIntError")
    ELSE IntRanged(ty, IF sign = "-" THEN 0 - DecValue(digits) ELSE DecValue(digits))

ParseInt(ty, str) ==
    IntSigned(ty, IntSign(ty, str), IF IntSign(ty, str) = "" THEN str ELSE Tail(str))

(***************************************************************************)
(* f64.  A finite binary64 value is zero or (-1)^neg * bits * 2^exp, bits  *)
(* its 53 significand digits (most significant first, the first one 1) and *)
(* exp the weight of the last of them.  The values the parser meets are    *)
(* far from the subnormal and the overflow range.                          *)
(***************************************************************************)
MantissaBits == 53

RECURSIVE IntBits(_)
IntBits(n) == IF n = 0 THEN <<>> ELSE Append(IntBits(n \div 2), n % 2)

RECURSIVE BitsValue(_)
BitsValue(b) ==
    IF Len(b) = 0 THEN 0 ELSE 2 * BitsValue(SubSeq(b, 1, Len(b) - 1)) + b[Len(b)]

RECURSIVE Pow10(_)
Pow10(k) == IF k = 0 THEN 1 ELSE 10 * Pow10(k - 1)

RECURSIVE Pow2(_)
Pow2(k) == IF k = 0 THEN 1 ELSE 2 * Pow2(k - 1)

\* bits + 1
IncBits(b) ==
    IF \A i \in 1..Len(b) : b[i] = 1 THEN <<1>> \o [i \in 1..Len(b) |-> 0]
    ELSE LET p == CHOOSE i \in 1..Len(b) : b[i] = 0 /\ \A j \in (i + 1)..Len(b) : b[j] = 1
         IN  [i \in 1..Len(b) |-> IF i < p THEN b[i] ELSE IF i = p THEN 1 ELSE 0]

\* the significand inc after a carry out of its first digit, if there was one
Carried(inc, e2) ==
    IF Len(inc) = MantissaBits THEN [bits |-> inc, exp |-> e2]
    ELSE [bits |-> SubSeq(inc, 1, MantissaBits), exp |-> e2 + 1]

\* the significand m of weight e2, rounded up by one unit in the last place when up
RoundTo(m, up, e2) == IF ~up THEN [bits |-> m, exp |-> e2] ELSE Carried(IncBits(m), e2)

\* Round to nearest, ties to even, of bits * 2^e (plus a nonzero rest below the
\* last digit when sticky) to MantissaBits digits.
Round53(bits, sticky, e) ==
    IF Len(bits) <= MantissaBits
    THEN [bits |-> bits \o [j \in 1..(MantissaBits - Len(bits)) |-> 0],
          exp |-> e - (MantissaBits - Len(bits))]
    ELSE RoundTo(SubSeq(bits, 1, MantissaBits),
                 /\ bits[MantissaBits + 1] = 1
                 /\ \/ sticky
                    \/ \E j \in (MantissaBits + 2)..Len(bits) : bits[j] = 1
                    \/ bits[MantissaBits] = 1,
                 e + (Len(bits) - MantissaBits))

\* The binary digits of r / d (0 <= r < d) after the binary point, appended to
\* the digits acc until `need` significant digits stand or the rest is zero;
\* zeros counts the digits passed before the first 1 of the value.
RECURSIVE Expand(_, _, _, _, _, _)
Expand(r, d, acc, need, zeros, made) ==
    IF r = 0 \/ Len(acc) >= need THEN [bits |-> acc, rem |-> r, made |-> made]
    ELSE LET bit == IF 2 * r >= d THEN 1 ELSE 0
             r2 == 2 * r - bit * d
         IN  IF Len(acc) = 0 /\ bit = 0 THEN Expand(r2, d, acc, need, zeros + 1, made + 1)
             ELSE Expand(r2, d, Append(acc, bit), need, zeros, made + 1)

\* the digits x of a quotient, rounded
RoundExpanded(x) == Round53(x.bits, x.rem # 0, 0 - x.made)

\* the f64 nearest to n / 10^f (n > 0)
DecToF64(n, f) ==
    IF f <= 0 THEN Round53(IntBits(n * Pow10(0 - f)), FALSE, 0)
    ELSE RoundExpanded(Expand(n % Pow10(f), Pow10(f), IntBits(n \div Pow10(f)),
                              MantissaBits + 1, 0, 0))

DigitRun(str) ==
    IF \E i \in 1..Len(str) : Ch(str, i) \notin Digits
    THEN (CHOOSE i \in 1..Len(str) :
              Ch(str, i) \notin Digits /\ \A j \in 1..(i - 1) : Ch(str, j) \in Digits) - 1
    ELSE Len(str)

Drop(str, k) == SubSeq(str, k + 1, Len(str))

(***************************************************************************)
(* str::parse::<f64> (core::num::dec2flt) on the shapes a capture can      *)
(* have: [sign] digits [. digits] [(e|E) [sign] digits] with at least one  *)
(* significand digit; the result is the nearest f64.                       *)
(***************************************************************************)
F64Pack(neg, v) == Ok([zero |-> FALSE, neg |-> neg, bits |-> v.bits, exp |-> v.exp])

\* the value (-1)^neg * n / 10^f
F64Nearest(neg, n, f) ==
    IF n = 0 THEN Ok([zero |-> TRUE, neg |-> neg]) ELSE F64Pack(neg, DecToF64(n, f))

\* ip the integer digits, fp the fraction digits, ev the exponent, rest what follows
F64Make(neg, ip, fp, ev, rest) ==
    IF Len(ip) + Len(fp) = 0 \/ Len(rest) > 0 THEN Err("ParseFloatError")
    ELSE F64Nearest(neg, DecValue(ip \o fp), Len(fp) - ev)

\* s6 begins with the digits of the exponent
F64ExpDigits(neg, ip, fp, eneg, s6) ==
    IF DigitRun(s6) = 0 THEN Err("ParseFloatError")
    ELSE F64Make(neg, ip, fp,
                 IF eneg THEN 0 - DecValue(SubSeq(s6, 1, DigitRun(s6)))
                 ELSE DecValue(SubSeq(s6, 1, DigitRun(s6))),
                 Drop(s6, DigitRun(s6)))

\* s4 is what follows the significand
F64Exponent(neg, ip, fp, s4) ==
    IF Ch(s4, 1) \in {"e", "E"}
    THEN F64ExpDigits(neg, ip, fp, Ch(s4, 2) = "-",
                      IF Ch(s4, 2) \in {"+", "-"} THEN Drop(s4, 2) ELSE Drop(s4, 1))
    ELSE F64Make(neg, ip, fp, 0, s4)

\* s2 is what follows the integer digits
F64Fraction(neg, ip, s2) ==
    IF Ch(s2, 1) = "."
    THEN F64Exponent(neg, ip, SubSeq(s2, 2, 1 + DigitRun(Drop(s2, 1))),
                     Drop(s2, 1 + DigitRun(Drop(s2, 1))))
    ELSE F64Exponent(neg, ip, "", s2)

\* s1 is the number after its sign
F64Unsigned(neg, s1) == F64Fraction(neg, SubSeq(s1, 1, DigitRun(s1)), Drop(s1, DigitRun(s1)))

ParseF64(str) ==
    F64Unsigned(Ch(str, 1) = "-", IF Ch(str, 1) \in {"+", "-"} THEN Drop(str, 1) ELSE str)

\* the w binary digits of n < 2^w, with leading zeros
PadBits(n, w) == [j \in 1..(w - Len(IntBits(n))) |-> 0] \o IntBits(n)

RECURSIVE MulBits(_, _, _)
\* t the product of the last w digits, the digits before them still to do
MulStep(b, k, w, t) ==
    MulBits(SubSeq(b, 1, Len(b) - w), k, t \div Pow2(w)) \o PadBits(t % Pow2(w), w)

\* the last w digits of b times k, plus carry
MulGroup(b, k, carry, w) ==
    MulStep(b, k, w, BitsValue(SubSeq(b, Len(b) - w + 1, Len(b))) * k + carry)

\* bits * k + carry, worked from the least significant end in groups of 16 digits
MulBits(b, k, carry) ==
    IF Len(b) = 0 THEN IntBits(carry)
    ELSE MulGroup(b, k, carry, IF Len(b) < 16 THEN Len(b) ELSE 16)

\* x * k for a small positive integer k (the product x * 1000.0), rounded
F64MulInt(x, k) ==
    IF x.zero THEN x ELSE F64Pack(x.neg, Round53(MulBits(x.bits, k, 0), FALSE, x.exp)).val

\* `as u64`: truncation toward zero; a negative value gives 0
F64AsU64(x) ==
    IF x.zero \/ x.neg THEN 0
    ELSE IF x.exp >= 0 THEN BitsValue(x.bits) * Pow2(x.exp)
    ELSE IF Len(x.bits) + x.exp <= 0 THEN 0
    ELSE BitsValue(SubSeq(x.bits, 1, Len(x.bits) + x.exp))

(***************************************************************************)
(* The patterns of parser.rs and the numbers of their capture groups.      *)
(***************************************************************************)
Sp == Set({" "})
Dig == Set(Digits)
Call == Set(CallChars)

\* the DX pattern with " *" between the comment and the time
REGEX_PATTERN_DX_single ==
    [ng |-> 6,
     r |-> Cat(<<Bol, Lit("DX de"), Plus(Sp),
                 Grp(1, AtLeast(Call, 3)), Opt(Lit(":")), Star(Sp),
                 Grp(2, Cat(<<Star(Dig), AnyChar, Rep(Dig, 1, 2)>>)), Star(Sp),
                 Grp(3, AtLeast(Call, 3)), Plus(Sp),
                 Opt(Grp(4, Cat(<<Star(AnyChar), NotSet(SpaceChars)>>))), Star(Sp),
                 Rep(Grp(5, Rep(Dig, 4, 4)), 1, 1), Lit("Z"), Star(Sp),
                 Opt(Grp(6, Cat(<<Rep(Set(WordChars), 2, 2), Rep(Dig, 2, 2)>>))), Eol>>)]

\* the DX pattern with the comment as (.*)
REGEX_PATTERN_DX_loose ==
    [ng |-> 6,
     r |-> Cat(<<Bol, Lit("DX de"), Plus(Sp),
                 Grp(1, AtLeast(Call, 3)), Opt(Lit(":")), Star(Sp),
                 Grp(2, Cat(<<Star(Dig), AnyChar, Rep(Dig, 1, 2)>>)), Star(Sp),
                 Grp(3, AtLeast(Call, 3)), Plus(Sp),
                 Opt(Grp(4, Star(AnyChar))), Plus(Sp),
                 Rep(Grp(5, Rep(Dig, 4, 4)), 1, 1), Lit("Z"), Star(Sp),
                 Opt(Grp(6, Cat(<<Rep(Set(WordChars), 2, 2), Rep(Dig, 2, 2)>>))), Eol>>)]

\* the DX pattern with the prefix in small letters admitted as well
REGEX_PATTERN_DX_lower ==
    [ng |-> 6,
     r |-> Cat(<<Bol, Alt(<<Lit("DX de"), Lit("dx de")>>), Plus(Sp),
                 Grp(1, AtLeast(Call, 3)), Opt(Lit(":")), Star(Sp),
                 Grp(2, Cat(<<Star(Dig), AnyChar, Rep(Dig, 1, 2)>>)), Star(Sp),
                 Grp(3, AtLeast(Call, 3)), Plus(Sp),
                 Opt(Grp(4, Cat(<<Star(AnyChar), NotSet(SpaceChars)>>))), Plus(Sp),
                 Rep(Grp(5, Rep(Dig, 4, 4)), 1, 1), Lit("Z"), Star(Sp),
                 Opt(Grp(6, Cat(<<Rep(Set(WordChars), 2, 2), Rep(Dig, 2, 2)>>))), Eol>>)]

\* ^DX de +([A-Z0-9/\-#]{3,}):? *(\d*.\d{1,2}) *([A-Z0-9/\-#]{3,}) +(.*\S)? +(\d{4}){1}Z *(\w{2}\d{2})?$
REGEX_PATTERN_DX ==
    [ng |-> 6,
     r |-> Cat(<<Bol, Lit("DX de"), Plus(Sp),
                 Grp(1, AtLeast(Call, 3)), Opt(Lit(":")), Star(Sp),
                 Grp(2, Cat(<<Star(Dig), AnyChar, Rep(Dig, 1, 2)>>)), Star(Sp),
                 Grp(3, AtLeast(Call, 3)), Plus(Sp),
                 Opt(Grp(4, Cat(<<Star(AnyChar), NotSet(SpaceChars)>>))), Plus(Sp),
                 Rep(Grp(5, Rep(Dig, 4, 4)), 1, 1), Lit("Z"), Star(Sp),
                 Opt(Grp(6, Cat(<<Rep(Set(WordChars), 2, 2), Rep(Dig, 2, 2)>>))), Eol>>)]

\* the capture numbers with the two optional groups taken for each other
RegexDxCaptureIds_swapped ==
    [CallDe |-> 1, Freq |-> 2, CallDx |-> 3, Comment |-> 6, Utc |-> 5, Loc |-> 4]

RegexDxCaptureIds == [CallDe |-> 1, Freq |-> 2, CallDx |-> 3, Comment |-> 4, Utc |-> 5, Loc |-> 6]

\* ^([a-zA-z0-9]{2,}) +([0-9\-]{1,4}) +dB +([0-9]{1,3}) +((?:WPM|BPS)) +([a-zA-Z ]+)$
REGEX_PATTERN_RBN1 ==
    [ng |-> 5,
     r |-> Cat(<<Bol, Grp(1, AtLeast(Set(ModeChars), 2)), Plus(Sp),
                 Grp(2, Rep(Set(Digits \cup {"-"}), 1, 4)), Plus(Sp), Lit("dB"), Plus(Sp),
                 Grp(3, Rep(Dig, 1, 3)), Plus(Sp),
                 Grp(4, Alt(<<Lit("WPM"), Lit("BPS")>>)), Plus(Sp),
                 Grp(5, Plus(Set(Letters \cup {" "}))), Eol>>)]

\* the capture numbers of the with-speed pattern with speed and unit taken for each other
RegexRbn1CaptureIds_swapped == [Mode |-> 1, Db |-> 2, Speed |-> 4, SpeedUnit |-> 3, Info |-> 5]

RegexRbn1CaptureIds == [Mode |-> 1, Db |-> 2, Speed |-> 3, SpeedUnit |-> 4, Info |-> 5]

\* ^([a-zA-z0-9]{2,}) +([0-9\-]{1,4}) +dB +([A-Z]{2}[0-9]{2})? +([a-zA-Z ]+)$
\* the with-locator pattern with digits admitted in the info
REGEX_PATTERN_RBN2_lax ==
    [ng |-> 4,
     r |-> Cat(<<Bol, Grp(1, AtLeast(Set(ModeChars), 2)), Plus(Sp),
                 Grp(2, Rep(Set(Digits \cup {"-"}), 1, 4)), Plus(Sp), Lit("dB"), Plus(Sp),
                 Opt(Grp(3, Cat(<<Rep(Set(Upper), 2, 2), Rep(Dig, 2, 2)>>))), Plus(Sp),
                 Grp(4, Plus(Set(Letters \cup Digits \cup {" "}))), Eol>>)]

REGEX_PATTERN_RBN2 ==
    [ng |-> 4,
     r |-> Cat(<<Bol, Grp(1, AtLeast(Set(ModeChars), 2)), Plus(Sp),
                 Grp(2, Rep(Set(Digits \cup {"-"}), 1, 4)), Plus(Sp), Lit("dB"), Plus(Sp),
                 Opt(Grp(3, Cat(<<Rep(Set(Upper), 2, 2), Rep(Dig, 2, 2)>>))), Plus(Sp),
                 Grp(4, Plus(Set(Letters \cup {" "}))), Eol>>)]

\* the capture numbers of the with-locator pattern with db read from the mode
RegexRbn2CaptureIds_db == [Mode |-> 1, Db |-> 1, Loc |-> 3, Info |-> 4]

RegexRbn2CaptureIds == [Mode |-> 1, Db |-> 2, Loc |-> 3, Info |-> 4]

\* the WWV pattern with info1 as (.*) , the word boundary that ends it left out
REGEX_PATTERN_WWV_lax ==
    [ng |-> 7,
     r |-> Cat(<<Bol, Lit("WWV de"), Plus(Sp), Grp(1, Star(Call)), Plus(Sp),
                 Lit("<"), Grp(2, Rep(Dig, 2, 2)), Opt(Lit("Z")), Lit(">"), Star(Sp),
                 Lit(":"), Star(Sp),
                 Lit("SFI="), Grp(3, Rep(Dig, 1, 3)), Lit(", A="), Grp(4, Rep(Dig, 1, 3)),
                 Lit(", K="), Grp(5, Rep(Dig, 1, 3)), Lit(", "),
                 Grp(6, Star(AnyChar)), Star(Sp), Lit("->"), Star(Sp),
                 Grp(7, Cat(<<Star(AnyChar), WordB>>)), Star(Sp), Eol>>)]

\* ^WWV de +([A-Z0-9/\-#]*) +<(\d{2})Z?> *: *SFI=(\d{1,3}), A=(\d{1,3}), K=(\d{1,3}), (.*\b) *-> *(.*\b) *$
REGEX_PATTERN_WWV ==
    [ng |-> 7,
     r |-> Cat(<<Bol, Lit("WWV de"), Plus(Sp), Grp(1, Star(Call)), Plus(Sp),
                 Lit("<"), Grp(2, Rep(Dig, 2, 2)), Opt(Lit("Z")), Lit(">"), Star(Sp),
                 Lit(":"), Star(Sp),
                 Lit("SFI="), Grp(3, Rep(Dig, 1, 3)), Lit(", A="), Grp(4, Rep(Dig, 1, 3)),
                 Lit(", K="), Grp(5, Rep(Dig, 1, 3)), Lit(", "),
                 Grp(6, Cat(<<Star(AnyChar), WordB>>)), Star(Sp), Lit("->"), Star(Sp),
                 Grp(7, Cat(<<Star(AnyChar), WordB>>)), Star(Sp), Eol>>)]

RegexWwvCaptureIds ==
    [CallDe |-> 1, Utc |-> 2, Sfi |-> 3, A |-> 4, K |-> 5, Info1 |-> 6, Info2 |-> 7]

\* the WCY pattern with A=(\d{0,3}) , a value that may be empty
REGEX_PATTERN_WCY_lax ==
    [ng |-> 10,
     r |-> Cat(<<Bol, Lit("WCY de"), Plus(Sp), Grp(1, Star(Call)), Plus(Sp),
                 Lit("<"), Grp(2, Rep(Dig, 2, 2)), Lit(">"), Star(Sp), Lit(":"), Plus(Sp),
                 Lit("K="), Grp(3, Rep(Dig, 1, 3)), Lit(" expK="), Grp(4, Rep(Dig, 1, 3)),
                 Lit(" A="), Grp(5, Rep(Dig, 0, 3)), Lit(" R="), Grp(6, Rep(Dig, 1, 3)),
                 Lit(" SFI="), Grp(7, Rep(Dig, 1, 3)),
                 Lit(" SA="), Grp(8, Rep(Set(Letters), 1, 3)),
                 Lit(" GMF="), Grp(9, Rep(Set(Letters), 1, 3)),
                 Lit(" Au="), Grp(10, Rep(Set(Letters), 2, 2)), Star(Sp), Eol>>)]

\* ^WCY de +([A-Z0-9/\-#]*) +<(\d{2})> *: +K=(\d{1,3}) expK=(\d{1,3}) A=(\d{1,3}) R=(\d{1,3}) SFI=(\d{1,3}) SA=([a-zA-Z]{1,3}) GMF=([a-zA-Z]{1,3}) Au=([a-zA-Z]{2}) *$
REGEX_PATTERN_WCY ==
    [ng |-> 10,
     r |-> Cat(<<Bol, Lit("WCY de"), Plus(Sp), Grp(1, Star(Call)), Plus(Sp),
                 Lit("<"), Grp(2, Rep(Dig, 2, 2)), Lit(">"), Star(Sp), Lit(":"), Plus(Sp),
                 Lit("K="), Grp(3, Rep(Dig, 1, 3)), Lit(" expK="), Grp(4, Rep(Dig, 1, 3)),
                 Lit(" A="), Grp(5, Rep(Dig, 1, 3)), Lit(" R="), Grp(6, Rep(Dig, 1, 3)),
                 Lit(" SFI="), Grp(7, Rep(Dig, 1, 3)),
                 Lit(" SA="), Grp(8, Rep(Set(Letters), 1, 3)),
                 Lit(" GMF="), Grp(9, Rep(Set(Letters), 1, 3)),
                 Lit(" Au="), Grp(10, Rep(Set(Letters), 2, 2)), Star(Sp), Eol>>)]

RegexWcyCaptureIds ==
    [CallDe |-> 1, Utc |-> 2, K |-> 3, Expk |-> 4, A |-> 5, R |-> 6, Sfi |-> 7,
     Sa |-> 8, Gmf |-> 9, Au |-> 10]

\* the WX pattern with a separator [ :] of one character
REGEX_PATTERN_WX_one ==
    [ng |-> 3,
     r |-> Cat(<<Bol, Lit("WX de"), Plus(Sp), Grp(1, Star(Call)), Opt(Set(SpaceChars)),
                 Opt(Cat(<<Lit("<"), Grp(2, Rep(Dig, 4, 4)), Lit("Z>")>>)),
                 Set({" ", ":"}), Opt(Grp(3, Star(AnyChar))), Eol>>)]

\* the WX pattern with the separator as [ :]* , one that may be left out
REGEX_PATTERN_WX_lax ==
    [ng |-> 3,
     r |-> Cat(<<Bol, Lit("WX de"), Plus(Sp), Grp(1, Star(Call)), Opt(Set(SpaceChars)),
                 Opt(Cat(<<Lit("<"), Grp(2, Rep(Dig, 4, 4)), Lit("Z>")>>)),
                 Star(Set({" ", ":"})), Opt(Grp(3, Star(AnyChar))), Eol>>)]

\* ^WX de +([A-Z0-9/\-#]*)\s?(?:<(\d{4})Z>)?[ :]+(.*)?$
REGEX_PATTERN_WX ==
    [ng |-> 3,
     r |-> Cat(<<Bol, Lit("WX de"), Plus(Sp), Grp(1, Star(Call)), Opt(Set(SpaceChars)),
                 Opt(Cat(<<Lit("<"), Grp(2, Rep(Dig, 4, 4)), Lit("Z>")>>)),
                 Plus(Set({" ", ":"})), Opt(Grp(3, Star(AnyChar))), Eol>>)]

\* the capture numbers of the WX pattern with the callsign read from the time group
RegexWxCaptureIds_shifted == [CallDe |-> 2, Utc |-> 2, Msg |-> 3]

RegexWxCaptureIds == [CallDe |-> 1, Utc |-> 2, Msg |-> 3]

\* the ToAll pattern with a callsign of one character at least
REGEX_PATTERN_TOALL_call ==
    [ng |-> 3,
     r |-> Cat(<<Bol, Lit("To ALL de"), Plus(Sp), Grp(1, Plus(Call)), Opt(Set(SpaceChars)),
                 Opt(Cat(<<Lit("<"), Grp(2, Rep(Dig, 4, 4)), Lit("Z>")>>)),
                 Plus(Set({" ", ":"})), Opt(Grp(3, Star(AnyChar))), Eol>>)]

\* ^To ALL de +([A-Z0-9/\-#]*)\s?(?:<(\d{4})Z>)?[ :]+(.*)?$
REGEX_PATTERN_TOALL ==
    [ng |-> 3,
     r |-> Cat(<<Bol, Lit("To ALL de"), Plus(Sp), Grp(1, Star(Call)), Opt(Set(SpaceChars)),
                 Opt(Cat(<<Lit("<"), Grp(2, Rep(Dig, 4, 4)), Lit("Z>")>>)),
                 Plus(Set({" ", ":"})), Opt(Grp(3, Star(AnyChar))), Eol>>)]

RegexToAllCaptureIds == [CallDe |-> 1, Utc |-> 2, Msg |-> 3]

\* the ToLocal pattern with the spelling LOCAL alone
REGEX_PATTERN_TOLOCAL_upper ==
    [ng |-> 3,
     r |-> Cat(<<Bol, Lit("To LOCAL de"), Plus(Sp),
                 Grp(1, Star(Call)),
                 Opt(Cat(<<Plus(Sp), Lit("<"), Grp(2, Rep(Dig, 4, 4)), Lit("Z>")>>)),
                 Plus(Set({" ", ":"})), Opt(Grp(3, Star(AnyChar))), Eol>>)]

\* ^To (?:LOCAL|Local) de +([A-Z0-9/\-#]*)(?: +<(\d{4})Z>)?[ :]+(.*)?$
REGEX_PATTERN_TOLOCAL ==
    [ng |-> 3,
     r |-> Cat(<<Bol, Lit("To "), Alt(<<Lit("LOCAL"), Lit("Local")>>), Lit(" de"), Plus(Sp),
                 Grp(1, Star(Call)),
                 Opt(Cat(<<Plus(Sp), Lit("<"), Grp(2, Rep(Dig, 4, 4)), Lit("Z>")>>)),
                 Plus(Set({" ", ":"})), Opt(Grp(3, Star(AnyChar))), Eol>>)]

RegexToLocalCaptureIds == [CallDe |-> 1, Utc |-> 2, Msg |-> 3]

(***************************************************************************)
(* Field coercion helpers.                                                 *)
(***************************************************************************)
\* Captures::get(id) followed by Match::as_str
CapGet(cap, id) ==
    IF cap.c[id] = NoCap THEN None
    ELSE Some(SubSeq(cap.s, cap.c[id][1], cap.c[id][2] - 1))

\* str::parse::<T>
FromStr(ty, str) == IF ty = "f64" THEN ParseF64(str) ELSE ParseInt(ty, str)

\* the arm Some(val) of the helpers for numbers: v is what parse::<T>() gave
Coerced(v) == IF v.ok THEN Ok(v.val) ELSE Err("InternalError")

CoercedOpt(v) == IF v.ok THEN Ok(Some(v.val)) ELSE Err("InternalError")

\* val is cap.get(id)
NumOf(ty, val) == IF val.some THEN Coerced(FromStr(ty, val.v)) ELSE Err("MissingField")

NumOptOf(ty, val) == IF val.some THEN CoercedOpt(FromStr(ty, val.v)) ELSE Ok(None)

StrOf(val) == IF val.some THEN Ok(val.v) ELSE Err("MissingField")

check_existence_num(ty, cap, id) == NumOf(ty, CapGet(cap, id))

check_existence_num_opt(ty, cap, id) == NumOptOf(ty, CapGet(cap, id))

check_existence_str(cap, id) == StrOf(CapGet(cap, id))

check_existence_str_opt(cap, id) == CapGet(cap, id)

\* the first error among the field results, in the order of the `?` operators
FirstErr(fields) ==
    LET bad == {i \in 1..Len(fields) : ~fields[i].ok}
    IN  IF bad = {} THEN None
        ELSE Some(fields[CHOOSE i \in bad : \A j \in bad : i <= j].err)

(***************************************************************************)
(* The records of types.rs, as their constructors new() leave them.        *)
(***************************************************************************)
DX_new ==
    [type |-> "DX", call_de |-> "", call_dx |-> "", freq |-> 0, utc |-> 0,
     loc |-> None, comment |-> None]

\* an RBN record that starts with a locator set
RBN_new_loc ==
    [mode |-> "", db |-> 0, speed |-> None, speed_unit |-> None, info |-> "",
     loc |-> Some("")]

RBN_new ==
    [mode |-> "", db |-> 0, speed |-> None, speed_unit |-> None, info |-> "", loc |-> None]

WWV_new ==
    [type |-> "WWV", call_de |-> "", utc |-> 0, sfi |-> 0, a |-> 0, k |-> 0,
     info1 |-> "", info2 |-> ""]

WCY_new ==
    [type |-> "WCY", call_de |-> "", utc |-> 0, k |-> 0, expk |-> 0, a |-> 0, r |-> 0,
     sfi |-> 0, sa |-> "", gmf |-> "", au |-> ""]

WX_new == [type |-> "WX", call_de |-> "", utc |-> None, msg |-> None]

ToAll_new == [type |-> "ToAll", call_de |-> "", utc |-> None, msg |-> None]

ToLocal_new == [type |-> "ToLocal", call_de |-> "", utc |-> None, msg |-> None]

(***************************************************************************)
(* The classifier and the extractors.                                      *)
(***************************************************************************)
\* starts_with on s without the spaces it begins with
starts_with_trimmed(s, p) ==
    \E k \in 0..Len(s) :
        /\ \A i \in 1..k : Ch(s, i) = " "
        /\ Len(p) <= Len(s) - k
        /\ SubSeq(s, k + 1, k + Len(p)) = p

\* str::starts_with
starts_with(s, p) == Len(p) <= Len(s) /\ SubSeq(s, 1, Len(p)) = p

\* the classifier without the second spelling of the ToLocal prefix
ident_type_one_local(input) ==
    IF starts_with(input, "DX de") THEN Ok(DX_new)
    ELSE IF starts_with(input, "WWV de") THEN Ok(WWV_new)
    ELSE IF starts_with(input, "WCY de") THEN Ok(WCY_new)
    ELSE IF starts_with(input, "WX de") THEN Ok(WX_new)
    ELSE IF starts_with(input, "To ALL de") THEN Ok(ToAll_new)
    ELSE IF starts_with(input, "To LOCAL de") THEN Ok(ToLocal_new)
    ELSE Err("UnknownType")

ident_type(input) ==
    IF starts_with(input, "DX de") THEN Ok(DX_new)
    ELSE IF starts_with(input, "WWV de") THEN Ok(WWV_new)
    ELSE IF starts_with(input, "WCY de") THEN Ok(WCY_new)
    ELSE IF starts_with(input, "WX de") THEN Ok(WX_new)
    ELSE IF starts_with(input, "To ALL de") THEN Ok(ToAll_new)
    ELSE IF starts_with(input, "To LOCAL de") \/ starts_with(input, "To Local de")
    THEN Ok(ToLocal_new)
    ELSE Err("UnknownType")

\* The extractors.  Each one is written in three steps: the match of the
\* pattern (c), the fields read from the captures, and the record built from
\* them when none of the reads failed.
dx_build(dx, c, call_de, call_dx, freq, utc) ==
    IF FirstErr(<<call_de, call_dx, freq, utc>>).some
    THEN Err(FirstErr(<<call_de, call_dx, freq, utc>>).v)
    ELSE Ok([dx EXCEPT !.call_de = call_de.val,
                       !.call_dx = call_dx.val,
                       !.freq = F64AsU64(F64MulInt(freq.val, 1000)),
                       !.utc = utc.val,
                       !.loc = check_existence_str_opt(c, RegexDxCaptureIds.Loc),
                       !.comment = check_existence_str_opt(c, RegexDxCaptureIds.Comment)])

dx_fields(dx, c) ==
    IF ~c.m THEN Err("InvalidContent")
    ELSE dx_build(dx, c,
                  check_existence_str(c, RegexDxCaptureIds.CallDe),
                  check_existence_str(c, RegexDxCaptureIds.CallDx),
                  check_existence_num("f64", c, RegexDxCaptureIds.Freq),
                  check_existence_num("u16", c, RegexDxCaptureIds.Utc))

parse_dx(s, dx) == dx_fields(dx, Captures(REGEX_PATTERN_DX, s))

wwv_build(wwv, call_de, utc, sfi, a, k, info1, info2) ==
    IF FirstErr(<<call_de, utc, sfi, a, k, info1, info2>>).some
    THEN Err(FirstErr(<<call_de, utc, sfi, a, k, info1, info2>>).v)
    ELSE Ok([wwv EXCEPT !.call_de = call_de.val, !.utc = utc.val, !.sfi = sfi.val,
                        !.a = a.val, !.k = k.val,
                        !.info1 = info1.val, !.info2 = info2.val])

wwv_fields(wwv, c) ==
    IF ~c.m THEN Err("InvalidContent")
    ELSE wwv_build(wwv,
                   check_existence_str(c, RegexWwvCaptureIds.CallDe),
                   check_existence_num("u8", c, RegexWwvCaptureIds.Utc),
                   check_existence_num("u16", c, RegexWwvCaptureIds.Sfi),
                   check_existence_num("u16", c, RegexWwvCaptureIds.A),
                   check_existence_num("u16", c, RegexWwvCaptureIds.K),
                   check_existence_str(c, RegexWwvCaptureIds.Info1),
                   check_existence_str(c, RegexWwvCaptureIds.Info2))

parse_wwv(s, wwv) == wwv_fields(wwv, Captures(REGEX_PATTERN_WWV, s))

wcy_build(wcy, call_de, utc, k, expk, a, r, sfi, sa, gmf, au) ==
    IF FirstErr(<<call_de, utc, k, expk, a, r, sfi, sa, gmf, au>>).some
    THEN Err(FirstErr(<<call_de, utc, k, expk, a, r, sfi, sa, gmf, au>>).v)
    ELSE Ok([wcy EXCEPT !.call_de = call_de.val, !.utc = utc.val, !.k = k.val,
                        !.expk = expk.val, !.a = a.val, !.r = r.val,
                        !.sfi = sfi.val, !.sa = sa.val, !.gmf = gmf.val,
                        !.au = au.val])

wcy_fields(wcy, c) ==
    IF ~c.m THEN Err("InvalidContent")
    ELSE wcy_build(wcy,
                   check_existence_str(c, RegexWcyCaptureIds.CallDe),
                   check_existence_num("u8", c, RegexWcyCaptureIds.Utc),
                   check_existence_num("u16", c, RegexWcyCaptureIds.K),
                   check_existence_num("u16", c, RegexWcyCaptureIds.Expk),
                   check_existence_num("u16", c, RegexWcyCaptureIds.A),
                   check_existence_num("u16", c, RegexWcyCaptureIds.R),
                   check_existence_num("u16", c, RegexWcyCaptureIds.Sfi),
                   check_existence_str(c, RegexWcyCaptureIds.Sa),
                   check_existence_str(c, RegexWcyCaptureIds.Gmf),
                   check_existence_str(c, RegexWcyCaptureIds.Au))

parse_wcy(s, wcy) == wcy_fields(wcy, Captures(REGEX_PATTERN_WCY, s))

\* the record of a WX, ToAll or ToLocal line: rec with call_de, utc and msg set
msg_build(rec, call_de, utc, msg) ==
    IF FirstErr(<<call_de, utc>>).some THEN Err(FirstErr(<<call_de, utc>>).v)
    ELSE Ok([rec EXCEPT !.call_de = call_de.val, !.utc = utc.val, !.msg = msg])

wx_fields(wx, c) ==
    IF ~c.m THEN Err("InvalidContent")
    ELSE msg_build(wx,
                   check_existence_str(c, RegexWxCaptureIds.CallDe),
                   check_existence_num_opt("u16", c, RegexWxCaptureIds.Utc),
                   check_existence_str_opt(c, RegexWxCaptureIds.Msg))

parse_wx(s, wx) == wx_fields(wx, Captures(REGEX_PATTERN_WX, s))

toall_fields(ta, c) ==
    IF ~c.m THEN Err("InvalidContent")
    ELSE msg_build(ta,
                   check_existence_str(c, RegexToAllCaptureIds.CallDe),
                   check_existence_num_opt("u16", c, RegexToAllCaptureIds.Utc),
                   check_existence_str_opt(c, RegexToAllCaptureIds.Msg))

parse_toall(s, ta) == toall_fields(ta, Captures(REGEX_PATTERN_TOALL, s))

tolocal_fields(tl, c) ==
    IF ~c.m THEN Err("InvalidContent")
    ELSE msg_build(tl,
                   check_existence_str(c, RegexToLocalCaptureIds.CallDe),
                   check_existence_num_opt("u16", c, RegexToLocalCaptureIds.Utc),
                   check_existence_str_opt(c, RegexToLocalCaptureIds.Msg))

parse_tolocal(s, tl) == tolocal_fields(tl, Captures(REGEX_PATTERN_TOLOCAL, s))

\* the arm of parse for the variant ident_type found
dispatch(s, spot) ==
    CASE spot.type = "DX" -> parse_dx(s, spot)
      [] spot.type = "WWV" -> parse_wwv(s, spot)
      [] spot.type = "WCY" -> parse_wcy(s, spot)
      [] spot.type = "WX" -> parse_wx(s, spot)
      [] spot.type = "ToAll" -> parse_toall(s, spot)
      [] spot.type = "ToLocal" -> parse_tolocal(s, spot)

\* ident_type(raw)? : its error is the error of parse
propagate(s, ty) == IF ~ty.ok THEN ty ELSE dispatch(s, ty.val)

parse(s) == propagate(s, ident_type(s))

rbn1_build(rbn, c1, mode, db, speed, info) ==
    IF FirstErr(<<mode, db, speed, info>>).some
    THEN Err(FirstErr(<<mode, db, speed, info>>).v)
    ELSE Ok([rbn EXCEPT
               !.mode = mode.val, !.db = db.val, !.speed = speed.val,
               !.speed_unit = check_existence_str_opt(c1, RegexRbn1CaptureIds.SpeedUnit),
               !.info = info.val])

rbn2_build(rbn, c2, mode, db, info) ==
    IF FirstErr(<<mode, db, info>>).some THEN Err(FirstErr(<<mode, db, info>>).v)
    ELSE Ok([rbn EXCEPT
               !.mode = mode.val, !.db = db.val, !.info = info.val,
               !.loc = check_existence_str_opt(c2, RegexRbn2CaptureIds.Loc)])

\* c1 and c2 are the matches of the two patterns
rbn_fields(rbn, c1, c2) ==
    IF c1.m
    THEN rbn1_build(rbn, c1,
                    check_existence_str(c1, RegexRbn1CaptureIds.Mode),
                    check_existence_num("i16", c1, RegexRbn1CaptureIds.Db),
                    check_existence_num_opt("u16", c1, RegexRbn1CaptureIds.Speed),
                    check_existence_str(c1, RegexRbn1CaptureIds.Info))
    ELSE IF c2.m
    THEN rbn2_build(rbn, c2,
                    check_existence_str(c2, RegexRbn2CaptureIds.Mode),
                    check_existence_num("i16", c2, RegexRbn2CaptureIds.Db),
                    check_existence_str(c2, RegexRbn2CaptureIds.Info))
    ELSE Err("InvalidContent")

parse_rbn(s) ==
    rbn_fields(RBN_new, Captures(REGEX_PATTERN_RBN1, s), Captures(REGEX_PATTERN_RBN2, s))

(***************************************************************************)
(* Spot::to_json and its inverse.  serde_json writes the enum externally   *)
(* tagged and compact: {"DX":{"call_de":"DF2MX",...,"loc":null}}, the      *)
(* fields in the order of the struct, a String quoted and escaped, an      *)
(* integer in decimal, an absent Option as null.  The derived Deserialize  *)
(* reads the same text back: fields by name, each at most once, a required *)
(* field that is missing or null is an error.                              *)
(***************************************************************************)
Field(name, ty) == [name |-> name, ty |-> ty]

\* the fields of the structs, in the order of their declaration
Fields(type) ==
    CASE type = "DX" ->
           << Field("call_de", "String"), Field("call_dx", "String"),
              Field("freq", "u64"), Field("utc", "u16"),
              Field("loc", "Option<String>"), Field("comment", "Option<String>") >>
      [] type = "WWV" ->
           << Field("call_de", "String"), Field("utc", "u8"), Field("sfi", "u16"),
              Field("a", "u16"), Field("k", "u16"),
              Field("info1", "String"), Field("info2", "String") >>
      [] type = "WCY" ->
           << Field("call_de", "String"), Field("utc", "u8"), Field("k", "u16"),
              Field("expk", "u16"), Field("a", "u16"), Field("r", "u16"),
              Field("sfi", "u16"), Field("sa", "String"), Field("gmf", "String"),
              Field("au", "String") >>
      [] type \in {"WX", "ToAll", "ToLocal"} ->
           << Field("call_de", "String"), Field("utc", "Option<u16>"),
              Field("msg", "Option<String>") >>

\* the variant of the enum a tag names
Variant(tag) ==
    CASE tag = "DX" -> DX_new
      [] tag = "WWV" -> WWV_new
      [] tag = "WCY" -> WCY_new
      [] tag = "WX" -> WX_new
      [] tag = "ToAll" -> ToAll_new
      [] tag = "ToLocal" -> ToLocal_new

Quot == "\""
Bsl == "\\"

\* the characters serde_json writes for one character of a string
EscapeChar(c) ==
    CASE c = Quot -> Bsl \o Quot
      [] c = Bsl -> Bsl \o Bsl
      [] c = "\n" -> Bsl \o "n"
      [] c = "\r" -> Bsl \o "r"
      [] c = "\t" -> Bsl \o "t"
      [] c = "\f" -> Bsl \o "f"
      [] OTHER -> c

\* the character an escape sequence \c stands for
UnescapeChar(c) ==
    CASE c = "n" -> "\n"
      [] c = "r" -> "\r"
      [] c = "t" -> "\t"
      [] c = "f" -> "\f"
      [] OTHER -> c

\* a string written without escaping
RECURSIVE Escape_raw(_)
Escape_raw(s) == IF s = "" THEN "" ELSE Ch(s, 1) \o Escape_raw(Drop(s, 1))

RECURSIVE Escape(_)
Escape(s) == IF s = "" THEN "" ELSE EscapeChar(Ch(s, 1)) \o Escape(Drop(s, 1))

Quote(s) == Quot \o Escape(s) \o Quot

RECURSIVE Itoa(_)
Itoa(n) ==
    IF n < 10 THEN SubSeq("0123456789", n + 1, n + 1)
    ELSE Itoa(n \div 10) \o SubSeq("0123456789", (n % 10) + 1, (n % 10) + 1)

\* the text of one field value
Value(ty, v) ==
    CASE ty = "String" -> Quote(v)
      [] ty \in {"u64", "u16", "u8"} -> Itoa(v)
      [] ty = "Option<String>" -> IF v.some THEN Quote(v.v) ELSE "null"
      [] ty = "Option<u16>" -> IF v.some THEN Itoa(v.v) ELSE "null"

RECURSIVE Members(_, _, _)
Members(rec, fs, i) ==
    IF i > Len(fs) THEN ""
    ELSE (IF i > 1 THEN "," ELSE "")
         \o Quote(fs[i].name) \o ":" \o Value(fs[i].ty, rec[fs[i].name])
         \o Members(rec, fs, i + 1)

to_json(spot) ==
    "{" \o Quote(spot.type) \o ":{" \o Members(spot, Fields(spot.type), 1) \o "}}"

\* what a step of the reader returns: the value read and the position after it
Read(v, next) == [ok |-> TRUE, v |-> v, next |-> next]
Bad == [ok |-> FALSE]

\* the text t has p at position i
At(t, i, p) == i + Len(p) - 1 <= Len(t) /\ SubSeq(t, i, i + Len(p) - 1) = p

\* the string whose opening quote ends before position i
RECURSIVE ReadStr(_, _, _)
ReadStr(t, i, acc) ==
    IF i > Len(t) THEN Bad
    ELSE IF Ch(t, i) = Quot THEN Read(acc, i + 1)
    ELSE IF Ch(t, i) = Bsl
    THEN (IF i + 1 > Len(t) THEN Bad
          ELSE ReadStr(t, i + 2, acc \o UnescapeChar(Ch(t, i + 1))))
    ELSE ReadStr(t, i + 1, acc \o Ch(t, i))

JsonRange(ty) ==
    CASE ty = "u8" -> 255
      [] ty \in {"u16", "Option<u16>"} -> 65535
      [] ty = "u64" -> 2147483647

\* the n digits at position i read as a number of type ty
ReadDigits(ty, t, i, n) ==
    IF n > 9 \/ DecValue(SubSeq(t, i, i + n - 1)) > JsonRange(ty) THEN Bad
    ELSE Read(IF ty = "Option<u16>" THEN Some(DecValue(SubSeq(t, i, i + n - 1)))
              ELSE DecValue(SubSeq(t, i, i + n - 1)),
              i + n)

Wrapped(ty, r) == IF r.ok /\ ty = "Option<String>" THEN Read(Some(r.v), r.next) ELSE r

ReadValue(ty, t, i) ==
    IF At(t, i, "null")
    THEN (IF ty \in {"Option<String>", "Option<u16>"} THEN Read(None, i + 4) ELSE Bad)
    ELSE IF Ch(t, i) = Quot
    THEN (IF ty \in {"String", "Option<String>"} THEN Wrapped(ty, ReadStr(t, i + 1, ""))
          ELSE Bad)
    ELSE IF Ch(t, i) \in Digits
    THEN (IF ty \in {"u64", "u16", "u8", "Option<u16>"}
          THEN ReadDigits(ty, t, i, DigitRun(Drop(t, i - 1)))
          ELSE Bad)
    ELSE Bad

FieldNames(fs) == {fs[j].name : j \in 1..Len(fs)}

TypeOf(fs, name) == fs[CHOOSE j \in 1..Len(fs) : fs[j].name = name].ty

Required(fs) ==
    {fs[j].name : j \in {k \in 1..Len(fs) : fs[k].ty \notin {"Option<String>", "Option<u16>"}}}

RECURSIVE ReadMembers(_, _, _, _, _)

\* the value v of the field name was read: a comma or the closing brace follows
AfterValue(t, name, v, rec, seen, fs) ==
    IF ~v.ok THEN Bad
    ELSE IF Ch(t, v.next) = ","
    THEN ReadMembers(t, v.next + 1, [rec EXCEPT ![name] = v.v], seen \cup {name}, fs)
    ELSE IF Ch(t, v.next) = "}"
    THEN (IF Required(fs) \subseteq seen \cup {name}
          THEN Read([rec EXCEPT ![name] = v.v], v.next + 1)
          ELSE Bad)
    ELSE Bad

\* the name k of a field was read: a colon and the value of the field follow
AfterKey(t, k, rec, seen, fs) ==
    IF ~k.ok THEN Bad
    ELSE IF Ch(t, k.next) # ":" \/ k.v \notin FieldNames(fs) \/ k.v \in seen THEN Bad
    ELSE AfterValue(t, k.v, ReadValue(TypeOf(fs, k.v), t, k.next + 1), rec, seen, fs)

ReadMembers(t, i, rec, seen, fs) ==
    IF Ch(t, i) # Quot THEN Bad
    ELSE AfterKey(t, ReadStr(t, i + 1, ""), rec, seen, fs)

\* the members were read: the brace of the enum closes the text
AfterMembers(t, m) ==
    IF m.ok /\ Ch(t, m.next) = "}" /\ m.next = Len(t) THEN Ok(m.v) ELSE Err("Json")

AfterTag(t, tag) ==
    IF ~tag.ok THEN Err("Json")
    ELSE IF tag.v \notin {"DX", "WWV", "WCY", "WX", "ToAll", "ToLocal"} THEN Err("Json")
    ELSE IF ~At(t, tag.next, ":{") THEN Err("Json")
    ELSE AfterMembers(t, ReadMembers(t, tag.next + 2, Variant(tag.v), {}, Fields(tag.v)))

\* serde_json::from_str::<Spot>
deserialize(t) ==
    IF ~At(t, 1, "{" \o Quot) THEN Err("Json") ELSE AfterTag(t, ReadStr(t, 3, ""))

(***************************************************************************)
(* The callers' lines.  A line is put together piece by piece after the    *)
(* shape of the lines of the tests; each piece is either one the shape     *)
(* documents (norm) or a deviation from it (odd): a piece left out, empty, *)
(* misspelt or out of range.  At most MaxOdd pieces of a line deviate.     *)
(***************************************************************************)
MaxOdd == 2

Piece(norm, odd) == [norm |-> norm, odd |-> odd]

\* DX de DF2MX:     18160.0  DL8AW/P      EU-156 Tombelaine Isl.         2259Z RF80
ShapeDX ==
    << Piece({"DX de"}, {"dx de", "DX", " DX de", "RANDOM TEXT"}),
       Piece({" "}, {"", "XYZ "}),
       Piece({"DF2MX"}, {"", "N2", "DF2MX1", "df2mx"}),
       Piece({": "}, {"", " ", ":"}),
       Piece({"14036.1", "16384.1", "7010.25", "2.01"}, {"", "14025,0", "18160", "-5", ".5"}),
       Piece({"  "}, {""}),
       Piece({"DL8AW/P", "3B9FR"}, {"", "OH"}),
       Piece({"    ", "  LSB  ", "  599 into N. MI  "}, {" ", " LSB ", "  LSB", "LSB  "}),
       Piece({"2259Z"}, {"", "2259", "225Z", "2259z"}),
       Piece({"", " JO62"}, {"JO62", " JO62 ", " JO6", " 1234"}) >>

\* WWV de VE7CC <00>:   SFI=69, A=5, K=1, No Storms -> No Storms
ShapeWWV ==
    << Piece({"WWV de"}, {"wwv de", "WWV"}),
       Piece({" VE7CC"}, {" ", ""}),
       Piece({" <00>", " <18Z>"}, {"", " <>", " <0>", " <99>", " <24>"}),
       Piece({": ", " : "}, {"", " "}),
       Piece({"SFI=69, "}, {"", "SFI=, ", "SFI=1234, "}),
       Piece({"A=5, "}, {"", "A=, "}),
       Piece({"K=1, "}, {"", "K=, "}),
       Piece({"No Storms"}, {"", " "}),
       Piece({" -> ", "->"}, {"", " - "}),
       Piece({"No Storms"}, {"", " ", "Minor -> None"}) >>

\* WCY de DK0WCY-1 <23> : K=2 expK=3 A=7 R=26 SFI=79 SA=qui GMF=qui Au=no
ShapeWCY ==
    << Piece({"WCY de"}, {"wcy de", "WCY"}),
       Piece({" DK0WCY-1"}, {" ", ""}),
       Piece({" <23>", " <00>"}, {"", " <>", " <1>", " <99>", " <24>"}),
       Piece({" : ", ": "}, {"", " "}),
       Piece({"K=2"}, {"", "K="}),
       Piece({" expK=3"}, {"", " expK="}),
       Piece({" A=7"}, {"", " A="}),
       Piece({" R=26"}, {"", " R="}),
       Piece({" SFI=79"}, {"", " SFI="}),
       Piece({" SA=qui"}, {"", " SA="}),
       Piece({" GMF=qui"}, {"", " GMF="}),
       Piece({" Au=no"}, {"", " Au="}) >>

\* WX de OZ4AEC: FULL
ShapeWX ==
    << Piece({"WX de"}, {"wx de", "WX"}),
       Piece({" OZ4AEC"}, {" ", ""}),
       Piece({"", " <1405Z>"}, {" <1405>", " <Z>", "  <1405Z>"}),
       Piece({": ", " : "}, {"", ":"}),
       Piece({"FULL", "rain: 5 mm"}, {"", " : wet"}) >>

\* To ALL de SV5FRI-1: SV5FRI-1 DXCluster: telnet dxc.sv5fri.eu 7300
ShapeToAll ==
    << Piece({"To ALL de"}, {"To all de", "To ALL"}),
       Piece({" SV5FRI-1"}, {" ", ""}),
       Piece({"", " <1405Z>"}, {" <1405>", " <Z>", "  <1405Z>"}),
       Piece({": ", " : "}, {"", ":"}),
       Piece({"SV5FRI-1 DXCluster", "QRT: 73", "say \"73\" \\o/"}, {"", " : wet"}) >>

\* To Local de N5UXT <1405Z> : rebooting
ShapeToLocal ==
    << Piece({"To LOCAL de", "To Local de"}, {"To local de", "To LOCAL"}),
       Piece({" N5UXT"}, {" ", ""}),
       Piece({"", " <1405Z>"}, {" <1405>", " <Z>", "<1405Z>"}),
       Piece({" : ", ": "}, {"", ":"}),
       Piece({"rebooting"}, {"", " : wet"}) >>

\* CW     9 dB  21 WPM  NCDXF B   and   FT8  -12 dB  FK68    CQ
ShapeRBN ==
    << Piece({"FT8", "CW"}, {"", "C"}),
       Piece({"  -12", " 9"}, {"", " -", " 1-2", " 12-", " 12345"}),
       Piece({" dB"}, {"", " db", "dB"}),
       Piece({"  21 WPM", " 6 BPS", "  FK68", " "}, {"", " 21 wpm", " FK6", " FK68 21 WPM"}),
       Piece({"  CQ", " NCDXF B"}, {"", " CQ1", "CQ"}) >>

SpotForms == {"DX", "WWV", "WCY", "WX", "ToAll", "ToLocal"}

Shape(f) ==
    CASE f = "DX" -> ShapeDX
      [] f = "WWV" -> ShapeWWV
      [] f = "WCY" -> ShapeWCY
      [] f = "WX" -> ShapeWX
      [] f = "ToAll" -> ShapeToAll
      [] f = "ToLocal" -> ShapeToLocal
      [] f = "RBN" -> ShapeRBN

\* the number of pieces of the line that deviate from the shape
Odds(f, pieces) == Cardinality({i \in 1..Len(pieces) : pieces[i] \in Shape(f)[i].odd})

Pending == Err("Pending")

(***************************************************************************)
(* Calls from several threads.  The compiled patterns are the only state   *)
(* the calls share: each is a lazy_static, a cell guarded by a Once.  The  *)
(* first dereference finds the Once incomplete, claims it (running), runs  *)
(* Regex::new, writes the cell and marks the Once complete; a dereference  *)
(* that finds it running waits; one that finds it complete reads the cell. *)
(***************************************************************************)
NThreads == 2
MaxCalls == 3

Threads == 1..NThreads

Statics ==
    {"RE_DX", "RE_WWV", "RE_WCY", "RE_WX", "RE_TOALL", "RE_TOLOCAL", "RE_RBN1", "RE_RBN2"}

\* the lines the threads pass
ThreadLines ==
    {"DX de DF2MX: 14036.1  DL8AW/P  LSB  2259Z", "CW 9 dB 21 WPM CQ", "FT8 -12 dB FK68 CQ"}

\* every static compiled from the pattern of the DX lines
Regex_new_dx(n) == REGEX_PATTERN_DX

\* Regex::new(..).unwrap() of the static n
Regex_new(n) ==
    CASE n = "RE_DX" -> REGEX_PATTERN_DX
      [] n = "RE_WWV" -> REGEX_PATTERN_WWV
      [] n = "RE_WCY" -> REGEX_PATTERN_WCY
      [] n = "RE_WX" -> REGEX_PATTERN_WX
      [] n = "RE_TOALL" -> REGEX_PATTERN_TOALL
      [] n = "RE_TOLOCAL" -> REGEX_PATTERN_TOLOCAL
      [] n = "RE_RBN1" -> REGEX_PATTERN_RBN1
      [] n = "RE_RBN2" -> REGEX_PATTERN_RBN2

\* the static the extractor of a variant dereferences
StaticOf(type) ==
    CASE type = "DX" -> "RE_DX"
      [] type = "WWV" -> "RE_WWV"
      [] type = "WCY" -> "RE_WCY"
      [] type = "WX" -> "RE_WX"
      [] type = "ToAll" -> "RE_TOALL"
      [] type = "ToLocal" -> "RE_TOLOCAL"

\* the extractor of a variant on the match c of its pattern
fields(spot, c) ==
    CASE spot.type = "DX" -> dx_fields(spot, c)
      [] spot.type = "WWV" -> wwv_fields(spot, c)
      [] spot.type = "WCY" -> wcy_fields(spot, c)
      [] spot.type = "WX" -> wx_fields(spot, c)
      [] spot.type = "ToAll" -> toall_fields(spot, c)
      [] spot.type = "ToLocal" -> tolocal_fields(spot, c)

\* a thread that has not called yet
Idle == [pc |-> "idle", api |-> "", raw |-> "", re |-> "", res |-> Pending, calls |-> 0]

(***************************************************************************)
(* The state machine: a caller composes a line (Feed) and hands it to      *)
(* parse (Parse) or, for the comment of an RBN spot, to parse_rbn          *)
(* (ParseRbn).                                                             *)
(***************************************************************************)
InitForms(forms) ==
    /\ form \in forms
    /\ raw = ""
    /\ fed = <<>>
    /\ pc = "input"
    /\ res = Pending
    /\ json = ""
    /\ back = Pending
    /\ once = [n \in Statics |-> "incomplete"]
    /\ lazy = [n \in Statics |-> None]
    /\ compiled = [n \in Statics |-> 0]
    /\ th = [t \in Threads |-> Idle]

Init == InitForms(SpotForms \cup {"RBN"})

Feed ==
    /\ pc = "input"
    /\ Len(fed) < Len(Shape(form))
    /\ \E p \in Shape(form)[Len(fed) + 1].norm \cup Shape(form)[Len(fed) + 1].odd :
          /\ Odds(form, Append(fed, p)) <= MaxOdd
          /\ raw' = raw \o p
          /\ fed' = Append(fed, p)
    /\ UNCHANGED <<form, pc, res, json, back>>
    /\ UNCHANGED lazyVars

Parse ==
    /\ pc = "input"
    /\ form \in SpotForms
    /\ res' = parse(raw)
    /\ pc' = "parsed"
    /\ UNCHANGED <<form, raw, fed, json, back>>
    /\ UNCHANGED lazyVars

ParseRbn ==
    /\ pc = "input"
    /\ form = "RBN"
    /\ res' = parse_rbn(raw)
    /\ pc' = "parsed"
    /\ UNCHANGED <<form, raw, fed, json, back>>
    /\ UNCHANGED lazyVars

\* the caller prints the record parse returned
ToJson ==
    /\ pc = "parsed"
    /\ form \in SpotForms
    /\ res.ok
    /\ json' = to_json(res.val)
    /\ pc' = "printed"
    /\ UNCHANGED <<form, raw, fed, res, back>>
    /\ UNCHANGED lazyVars

\* a reader of the printed text gets a record back
FromJson ==
    /\ pc = "printed"
    /\ back' = deserialize(json)
    /\ pc' = "read"
    /\ UNCHANGED <<form, raw, fed, res, json>>
    /\ UNCHANGED lazyVars

Next == Feed \/ Parse \/ ParseRbn \/ ToJson \/ FromJson

Spec == Init /\ [][Next]_vars

NextSpot == Feed \/ Parse \/ ToJson \/ FromJson

NextRbn == Feed \/ ParseRbn

SpecDX == InitForms({"DX"}) /\ [][NextSpot]_vars

SpecWWV == InitForms({"WWV", "WCY"}) /\ [][NextSpot]_vars

SpecMsg == InitForms({"WX", "ToAll", "ToLocal"}) /\ [][NextSpot]_vars

SpecRBN == InitForms({"RBN"}) /\ [][NextRbn]_vars

(***************************************************************************)
(* The steps of a call from a thread.                                      *)
(***************************************************************************)
\* a Once that lets every caller that finds it incomplete run the closure
call_once_unclaimed(st) ==
    CASE st = "incomplete" -> [state |-> "incomplete", pc |-> "init"]
      [] st = "complete" -> [state |-> "complete", pc |-> "match"]

\* Once::call_once on a Once that is not running: the state it leaves and
\* where the caller goes on
call_once(st) ==
    CASE st = "incomplete" -> [state |-> "running", pc |-> "init"]
      [] st = "complete" -> [state |-> "complete", pc |-> "match"]

\* where a call of parse goes after ident_type returned ty
Entered(c, ty) ==
    IF ty.ok THEN [c EXCEPT !.pc = "deref", !.re = StaticOf(ty.val.type)]
    ELSE [c EXCEPT !.pc = "done", !.res = ty]

\* the calls the threads 1..n have made
RECURSIVE CallsMade(_)
CallsMade(n) == IF n = 0 THEN 0 ELSE th[n].calls + CallsMade(n - 1)

\* a thread calls parse or parse_rbn; the threads make MaxCalls calls in all
Enter ==
    /\ \E t \in Threads, api \in {"parse", "parse_rbn"}, s \in ThreadLines :
          /\ th[t].pc \in {"idle", "done"}
          /\ CallsMade(NThreads) < MaxCalls
          /\ th' = [th EXCEPT ![t] =
                      IF api = "parse"
                      THEN Entered([pc |-> "", api |-> api, raw |-> s, re |-> "",
                                    res |-> Pending, calls |-> th[t].calls + 1],
                                   ident_type(s))
                      ELSE [pc |-> "deref", api |-> api, raw |-> s, re |-> "RE_RBN1",
                            res |-> Pending, calls |-> th[t].calls + 1]]
    /\ UNCHANGED <<once, lazy, compiled>>
    /\ UNCHANGED lineVars

\* the thread dereferences the static: it waits while the Once is running
Deref ==
    /\ \E t \in Threads :
          /\ th[t].pc = "deref"
          /\ once[th[t].re] # "running"
          /\ once' = [once EXCEPT ![th[t].re] = call_once(@).state]
          /\ th' = [th EXCEPT ![t].pc = call_once(once[th[t].re]).pc]
    /\ UNCHANGED <<lazy, compiled>>
    /\ UNCHANGED lineVars

\* the closure of the Once: the pattern is compiled and written to the cell
Compile ==
    /\ \E t \in Threads :
          /\ th[t].pc = "init"
          /\ lazy' = [lazy EXCEPT ![th[t].re] = Some(Regex_new(th[t].re))]
          /\ compiled' = [compiled EXCEPT ![th[t].re] = @ + 1]
          /\ th' = [th EXCEPT ![t].pc = "publish"]
    /\ UNCHANGED once
    /\ UNCHANGED lineVars

\* the Once is marked complete and the waiting threads go on
Publish ==
    /\ \E t \in Threads :
          /\ th[t].pc = "publish"
          /\ once' = [once EXCEPT ![th[t].re] = "complete"]
          /\ th' = [th EXCEPT ![t].pc = "match"]
    /\ UNCHANGED <<lazy, compiled>>
    /\ UNCHANGED lineVars

\* the call after the match c of the static it dereferenced
Matched(c, m) ==
    IF c.api = "parse"
    THEN [c EXCEPT !.pc = "done", !.res = fields(ident_type(c.raw).val, m)]
    ELSE IF c.re = "RE_RBN1"
    THEN (IF m.m THEN [c EXCEPT !.pc = "done", !.res = rbn_fields(RBN_new, m, NoMatch)]
          ELSE [c EXCEPT !.pc = "deref", !.re = "RE_RBN2"])
    ELSE [c EXCEPT !.pc = "done", !.res = rbn_fields(RBN_new, NoMatch, m)]

\* Regex::captures on the pattern in the cell; the read of a cell that was
\* never written has no defined outcome
Match ==
    /\ \E t \in Threads :
          /\ th[t].pc = "match"
          /\ IF lazy[th[t].re].some
             THEN th' = [th EXCEPT ![t] = Matched(@, Captures(lazy[th[t].re].v, th[t].raw))]
             ELSE \E r \in {Err("InvalidContent"), Err("InternalError")} :
                     th' = [th EXCEPT ![t].pc = "done", ![t].res = r]
    /\ UNCHANGED <<once, lazy, compiled>>
    /\ UNCHANGED lineVars

NextThreads == Enter \/ Deref \/ Compile \/ Publish \/ Match

SpecThreads == InitForms({"DX"}) /\ [][NextThreads]_vars

(***************************************************************************)
(* What the properties below speak of.                                     *)
(***************************************************************************)
Prefixes ==
    {"DX de", "WWV de", "WCY de", "WX de", "To ALL de", "To LOCAL de", "To Local de"}

\* s begins with the characters of p
BeginsWith(s, p) == \E k \in 0..Len(s) : SubSeq(s, 1, k) = p

\* parse has returned the error e
Failed(e) == pc = "parsed" /\ res = Err(e)

\* parse has returned a record
Succeeded == pc = "parsed" /\ res.ok

\* the whole line of the shape was fed, no piece of it a deviation
WellFormed == Len(fed) = Len(Shape(form)) /\ Odds(form, fed) = 0

\* the i-th piece of the line, empty when the line ends before it
PieceAt(i) == IF i <= Len(fed) THEN fed[i] ELSE ""

RECURSIVE TrimSp(_)
\* s without the spaces around it
TrimSp(s) ==
    IF Len(s) = 0 THEN s
    ELSE IF SubSeq(s, 1, 1) = " " THEN TrimSp(SubSeq(s, 2, Len(s)))
    ELSE IF SubSeq(s, Len(s), Len(s)) = " " THEN TrimSp(SubSeq(s, 1, Len(s) - 1))
    ELSE s

\* s is made of callsign characters only, and of one at least
IsCallsign(s) == Len(s) > 0 /\ \A i \in 1..Len(s) : Ch(s, i) \in CallChars

\* the decimal token I.F or I.FF read exactly, in Hz
ExactHz(tok) ==
    LET dot == CHOOSE i \in 1..Len(tok) : Ch(tok, i) = "."
        int == SubSeq(tok, 1, dot - 1)
        frac == SubSeq(tok, dot + 1, Len(tok))
    IN  DecValue(int) * 1000
          + (IF Len(frac) = 1 THEN DecValue(frac) * 100 ELSE DecValue(frac) * 10)

(***************************************************************************)
(* The classifier.                                                         *)
(***************************************************************************)
\* C1: parse returns UnknownType exactly for the lines that begin with none
\* of the seven prefixes, spelt as they are, whatever follows the prefix.
C1_UnknownTypeIffNoPrefix ==
    (pc = "parsed" /\ form \in SpotForms)
        => (res = Err("UnknownType") <=> ~\E p \in Prefixes : BeginsWith(raw, p))

\* a prefix in the wrong case is refused as of unknown type
C1_Witness == Failed("UnknownType") /\ BeginsWith(raw, "To local de")

\* a line of a prefix, one space and a callsign, with nothing after it
OnlyType(s) ==
    \E p \in Prefixes :
        /\ BeginsWith(s, p \o " ")
        /\ IsCallsign(SubSeq(s, Len(p) + 2, Len(s)))

\* C2: a line made only of a variant's prefix, one space and a callsign is
\* refused with InvalidContent, for each of the six variants.
C2_OnlyTypeInvalidContent ==
    (pc = "parsed" /\ form \in SpotForms /\ OnlyType(raw)) => res = Err("InvalidContent")

\* the line "WX de OZ4AEC" was refused
C2_Witness == Failed("InvalidContent") /\ raw = "WX de OZ4AEC"

(***************************************************************************)
(* DX lines.  The pieces of a DX line: 3 the spotter, 5 the frequency,     *)
(* 7 the DX callsign, 8 the comment, 9 the time, 10 the locator.           *)
(***************************************************************************)
\* C3: on a DX line that parse accepts, freq is the frequency token read as
\* a decimal number of kHz, times 1000 (I.F gives I*1000 + F*100, I.FF gives
\* I*1000 + FF*10), and utc is the four digits before Z.
C3_FreqIsExactHz ==
    (Succeeded /\ form = "DX" /\ WellFormed)
        => /\ res.val.freq = ExactHz(fed[5])
           /\ res.val.utc = DecValue(SubSeq(fed[9], 1, 4))

\* what the conversion of parse_dx makes of a frequency token
HzOf(tok) == F64AsU64(F64MulInt(ParseF64(tok).val, 1000))

\* C4: on a well-formed DX line comment is None exactly when nothing but
\* spaces stands between the DX callsign and the time, loc is None exactly
\* when no locator follows the time, and each of call_de, call_dx, freq, utc,
\* comment and loc is settled by its own piece of the line alone.
C4_OptionalFieldsIndependent ==
    (pc = "parsed" /\ form = "DX" /\ WellFormed)
        => /\ res.ok
           /\ res.val.comment.some <=> TrimSp(fed[8]) # ""
           /\ res.val.comment.some => res.val.comment.v = TrimSp(fed[8])
           /\ res.val.loc.some <=> fed[10] # ""
           /\ res.val.loc.some => res.val.loc.v = TrimSp(fed[10])
           /\ res.val.call_de = fed[3]
           /\ res.val.call_dx = fed[7]
           /\ res.val.freq = HzOf(fed[5])
           /\ res.val.utc = DecValue(SubSeq(fed[9], 1, 4))

\* a line without a comment and with a locator was parsed
C4_Witness ==
    /\ Succeeded /\ form = "DX" /\ WellFormed
    /\ TrimSp(fed[8]) = "" /\ fed[10] = " JO62"
    /\ ~res.val.comment.some /\ res.val.loc = Some("JO62")

\* C5: a line that begins with "DX de" and has no frequency token between
\* the spotter and the DX callsign is refused with InvalidContent.
C5_NoFreqInvalidContent ==
    (pc = "parsed" /\ form = "DX" /\ BeginsWith(raw, "DX de")
       /\ Len(fed) >= 5 /\ fed[5] = "")
        => res = Err("InvalidContent")

(***************************************************************************)
(* WWV and WCY lines.  The pieces of a WWV line: 3 the time, 5 to 7 SFI, A *)
(* and K, 8 info1, 9 the arrow, 10 info2; of a WCY line: 3 the time, 5 to  *)
(* 12 the fields from K to Au.                                             *)
(***************************************************************************)
\* the pieces that hold the time or a key=value field
FieldSlots(f) == IF f = "WWV" THEN {3, 5, 6, 7} ELSE {3} \cup (5..12)

\* a time or a field that is left out, or written without its value
NoValue ==
    {"", " <>", "SFI=, ", "A=, ", "K=, ", "K=", " expK=", " A=", " R=", " SFI=",
     " SA=", " GMF=", " Au="}

\* the line begins with the prefix of its form
OwnPrefix == BeginsWith(raw, form \o " de")

\* C6: a WWV or WCY line whose time or one of whose key=value fields is left
\* out or has no value is refused with InvalidContent.
C6_MissingFieldInvalidContent ==
    (pc = "parsed" /\ form \in {"WWV", "WCY"} /\ OwnPrefix
       /\ \E i \in FieldSlots(form) : PieceAt(i) \in NoValue)
        => res = Err("InvalidContent")

\* a full WCY line with A= and no value was refused
C6_Witness ==
    /\ Failed("InvalidContent") /\ form = "WCY" /\ OwnPrefix
    /\ Len(fed) = 12 /\ fed[7] = " A=" /\ Odds(form, fed) = 1

\* s holds the separator of the two infos
HasArrow(s) == \E i \in 1..(Len(s) - 1) : SubSeq(s, i, i + 1) = "->"

\* the text of a WWV line after its fields
InfoText == PieceAt(8) \o PieceAt(9) \o PieceAt(10)

\* where the last "->" of s begins, 0 when s has none
LastArrow(s) ==
    LET at == {i \in 1..(Len(s) - 1) : SubSeq(s, i, i + 1) = "->"}
    IN  IF at = {} THEN 0 ELSE CHOOSE i \in at : \A j \in at : j <= i

RequiredStrings ==
    {"call_de", "call_dx", "info1", "info2", "sa", "gmf", "au", "mode", "info"}

\* C8: after a successful parse or parse_rbn no required string field of the
\* record is the empty string.
C8_RequiredStringsNonEmpty ==
    Succeeded => \A f \in RequiredStrings \cap DOMAIN res.val : res.val[f] # ""

\* C9: the utc of a WWV or WCY record is an hour, 0 to 23.
C9_HourInRange ==
    (Succeeded /\ form \in {"WWV", "WCY"}) => res.val.utc \in 0..23

\* C10: after a successful parse_rbn exactly one of the two groups is there:
\* speed and speed_unit without loc, or loc without speed and speed_unit.
C10_ExactlyOneGroup ==
    (Succeeded /\ form = "RBN")
        => \/ res.val.speed.some /\ res.val.speed_unit.some /\ ~res.val.loc.some
           \/ res.val.loc.some /\ ~res.val.speed.some /\ ~res.val.speed_unit.some

\* C10 as the code has it: after a successful parse_rbn at most one of the two
\* groups is there: speed and speed_unit come together or not at all, and
\* never with loc; a line with neither speed nor locator leaves both out.
C10_AtMostOneGroup ==
    (Succeeded /\ form = "RBN")
        => /\ res.val.speed.some <=> res.val.speed_unit.some
           /\ ~(res.val.speed.some /\ res.val.loc.some)

\* a comment with neither speed nor locator was parsed
C10_Witness ==
    /\ Succeeded /\ form = "RBN" /\ WellFormed /\ fed[4] = " "
    /\ ~res.val.speed.some /\ ~res.val.speed_unit.some /\ ~res.val.loc.some

(***************************************************************************)
(* RBN comments.  The pieces of a comment: 1 the mode, 2 the signal        *)
(* strength, 3 "dB", 4 the speed with its unit or the locator, 5 the info. *)
(***************************************************************************)
\* the with-speed pattern matches the line
MatchesRbn1 == Captures(REGEX_PATTERN_RBN1, raw).m

\* the with-locator pattern matches the line
MatchesRbn2 == Captures(REGEX_PATTERN_RBN2, raw).m

\* t is a decimal integer: digits, after one '-' or none
IsSignedDecimal(t) ==
    /\ Len(IF Ch(t, 1) = "-" THEN Drop(t, 1) ELSE t) > 0
    /\ AllDigits(IF Ch(t, 1) = "-" THEN Drop(t, 1) ELSE t)

\* the record has the speed group and no locator
SpeedGroupOnly ==
    /\ res.val.speed.some
    /\ res.val.speed_unit.some /\ res.val.speed_unit.v \in {"WPM", "BPS"}
    /\ ~res.val.loc.some

\* the record has no speed group
NoSpeedGroup == ~res.val.speed.some /\ ~res.val.speed_unit.some

\* the piece p ends with a unit of speed
HasUnit(p) == Len(p) >= 3 /\ SubSeq(p, Len(p) - 2, Len(p)) \in {"WPM", "BPS"}

\* what a whole comment of the shape holds, read off its pieces
ExpectedRbn ==
    [mode |-> fed[1],
     db |-> IF Ch(TrimSp(fed[2]), 1) = "-" THEN 0 - DecValue(Drop(TrimSp(fed[2]), 1))
            ELSE DecValue(TrimSp(fed[2])),
     speed |-> IF HasUnit(fed[4]) THEN Some(DecValue(SubSeq(TrimSp(fed[4]), 1, DigitRun(TrimSp(fed[4])))))
               ELSE None,
     speed_unit |-> IF HasUnit(fed[4])
                    THEN Some(SubSeq(fed[4], Len(fed[4]) - 2, Len(fed[4]))) ELSE None,
     info |-> TrimSp(fed[5]),
     loc |-> IF TrimSp(fed[4]) = "" \/ HasUnit(fed[4]) THEN None ELSE Some(TrimSp(fed[4]))]

MsgLine ==
    /\ form \in {"WX", "ToAll", "ToLocal"}
    /\ Len(fed) = 5
    /\ \A i \in {1, 2, 4, 5} : fed[i] \in Shape(form)[i].norm

\* the time token stands after the callsign, one space or more between them
HasTimeToken == TrimSp(fed[3]) = "<1405Z>" /\ Ch(fed[3], 1) = " "

\* C12: a WX, ToAll or ToLocal line with a time token <HHMMZ> after the
\* callsign and whitespace gives utc = Some(HHMM) and a msg without the
\* token; a line without the token gives utc = None and msg the text after
\* the separator.
C12_TimeTokenConsumed ==
    (pc = "parsed" /\ MsgLine)
        => /\ HasTimeToken => res = Ok([type |-> form, call_de |-> TrimSp(fed[2]),
                                        utc |-> Some(1405), msg |-> Some(fed[5])])
           /\ fed[3] = "" => res = Ok([type |-> form, call_de |-> TrimSp(fed[2]),
                                       utc |-> None, msg |-> Some(fed[5])])

\* the line s with the other spelling of the ToLocal prefix
Respelt(s) ==
    IF BeginsWith(s, "To LOCAL de") THEN "To Local de" \o Drop(s, 11)
    ELSE IF BeginsWith(s, "To Local de") THEN "To LOCAL de" \o Drop(s, 11)
    ELSE s

\* C13: two lines that differ only in the spelling of the prefix, To LOCAL de
\* or To Local de, have the same outcome: the same record or the same error.
C13_SpellingsAgree ==
    (pc = "parsed" /\ form = "ToLocal" /\ Respelt(raw) # raw) => res = parse(Respelt(raw))

\* a line with the spelling Local was parsed, and its time token read
C13_Witness ==
    /\ Succeeded /\ form = "ToLocal" /\ BeginsWith(raw, "To Local de")
    /\ res.val.utc = Some(1405) /\ parse(Respelt(raw)) = res

(***************************************************************************)
(* The printed record.                                                     *)
(***************************************************************************)
\* C14: the text to_json writes for the record of a successful parse reads
\* back as a record equal to it: the same variant, the same value in every
\* field, an absent optional field absent again.
C14_RoundTrip == pc = "read" => back = res

\* a ToAll record without utc, its msg with quotes and a backslash, was read back
C14_Witness ==
    /\ pc = "read" /\ form = "ToAll"
    /\ res.val.utc = None /\ res.val.msg = Some("say \"73\" \\o/")
    /\ back.ok /\ back.val.utc = None /\ back.val.msg = res.val.msg

(***************************************************************************)
(* Calls from several threads.                                             *)
(***************************************************************************)
\* the thread t is reading the pattern of the static it dereferenced
Matching(t) == th[t].pc = "match"

\* C15: under any interleaving of calls of parse and parse_rbn from several
\* threads the pattern of each static is compiled at most once, no call
\* matches against a pattern that is not fully initialised, and a pattern
\* is not written again once its initialisation is complete.
C15_InitOnce ==
    /\ [](\A n \in Statics : compiled[n] <= 1)
    /\ [](\A t \in Threads :
             Matching(t) => once[th[t].re] = "complete"
                            /\ lazy[th[t].re] = Some(Regex_new(th[t].re)))
    /\ [][\A n \in Statics : once[n] = "complete" => lazy'[n] = lazy[n]]_vars

\* two threads match against the same pattern, compiled once, at the same time
C15_Witness ==
    /\ Matching(1) /\ Matching(2)
    /\ th[1].re = th[2].re
    /\ compiled[th[1].re] = 1

\* the outcome of the call api(s) made alone, in a process that makes no other
Alone(api, s) == IF api = "parse" THEN parse(s) ELSE parse_rbn(s)

\* C16: parse and parse_rbn are stateless and deterministic: whatever calls
\* came before or run at the same time, a call returns what the same call
\* on the same input returns when made alone.
C16_SameAsAlone ==
    \A t \in Threads : th[t].pc = "done" => th[t].res = Alone(th[t].api, th[t].raw)

\* the second call of thread 1 has returned a record while a call of thread 2,
\* on another input, is between the initialisation and the use of a pattern
C16_Witness ==
    /\ th[1].pc = "done" /\ th[1].calls = 2 /\ th[1].api = "parse_rbn"
    /\ th[1].res.ok /\ th[1].res = parse_rbn(th[1].raw)
    /\ th[2].pc \in {"init", "publish", "match"} /\ th[2].raw # th[1].raw

(***************************************************************************)
(* The two RBN patterns.                                                   *)
(***************************************************************************)
\* parse_rbn with the with-locator pattern tried first
parse_rbn_reversed(s) ==
    IF Captures(REGEX_PATTERN_RBN2, s).m
    THEN rbn_fields(RBN_new, NoMatch, Captures(REGEX_PATTERN_RBN2, s))
    ELSE rbn_fields(RBN_new, Captures(REGEX_PATTERN_RBN1, s), NoMatch)

\* C17: no input matches both RBN patterns, and the result of parse_rbn is
\* the one it would give with the patterns tried in the other order.
C17_PatternsDisjoint ==
    (pc = "parsed" /\ form = "RBN")
        => /\ ~(MatchesRbn1 /\ MatchesRbn2)
           /\ res = parse_rbn_reversed(raw)

\* a comment with a locator was parsed: only the second pattern matches it
C17_Witness ==
    /\ Succeeded /\ form = "RBN" /\ MatchesRbn2 /\ ~MatchesRbn1
    /\ res.val.loc = Some("FK68") /\ res = parse_rbn_reversed(raw)

(***************************************************************************)
(* DX lines.  The pieces of a line: 3 the spotter, 5 the frequency, 7 the  *)
(* spotted station, 9 the time, 10 the locator.                            *)
(***************************************************************************)
\* two letters followed by two digits
IsLocator(l) ==
    /\ Len(l) = 4
    /\ Ch(l, 1) \in Letters /\ Ch(l, 2) \in Letters
    /\ Ch(l, 3) \in Digits /\ Ch(l, 4) \in Digits

\* C18: when a DX record has a loc, the loc is exactly two letters followed
\* by two digits.
C18_LocIsLocator ==
    (Succeeded /\ form = "DX" /\ res.val.loc.some) => IsLocator(res.val.loc.v)


\* the frequency token t is digits, one separator '.', and one or two digits
IsFreqToken(t) ==
    \E k \in 1..(Len(t) - 2) :
        /\ AllDigits(SubSeq(t, 1, k))
        /\ Ch(t, k + 1) = "."
        /\ Len(t) - (k + 1) \in {1, 2}
        /\ AllDigits(Drop(t, k + 1))

\* a whole DX line, every piece but the frequency as the shape has it
DxLineButFreq ==
    /\ form = "DX"
    /\ Len(fed) = 10
    /\ \A i \in (1..10) \ {5} : fed[i] \in Shape(form)[i].norm

\* C19: parse returns a DX record only when the frequency token is one or
\* more digits, a separator and one or two fraction digits; a line whose
\* token has any other shape is rejected with InvalidContent.
C19_FreqTokenShape ==
    (pc = "parsed" /\ DxLineButFreq /\ ~IsFreqToken(fed[5])) => res = Err("InvalidContent")


\* the spotter's callsign is left out of the line, or has fewer than three characters
SpotterBlankOrShort == Len(fed) >= 3 /\ Len(fed[3]) < 3

\* the line was fed to its end and has no token of four digits and Z
TimeMissing == Len(fed) = 10 /\ fed[9] \in Shape(form)[9].odd

\* C20: a DX de line is rejected with InvalidContent when the spotter's
\* callsign is blank or shorter than three characters, or when the HHMMZ
\* token is missing; in a DX record call_de and call_dx each have three or
\* more characters, all of A-Z, 0-9, '/', '-', '#'.
C20_CallsAndTimeRequired ==
    (pc = "parsed" /\ form = "DX")
        => /\ (BeginsWith(raw, "DX de") /\ (SpotterBlankOrShort \/ TimeMissing))
                 => res = Err("InvalidContent")
           /\ res.ok => /\ IsCallsign(res.val.call_de) /\ Len(res.val.call_de) >= 3
                        /\ IsCallsign(res.val.call_dx) /\ Len(res.val.call_dx) >= 3

(***************************************************************************)
(* The lines of the other variants.  Piece 2 of a line is the callsign     *)
(* with the space before it.                                               *)
(***************************************************************************)
\* a whole line, every piece as the shape has it but the i-th
WholeBut(i) ==
    /\ Len(fed) = Len(Shape(form))
    /\ \A j \in (1..Len(fed)) \ {i} : fed[j] \in Shape(form)[j].norm

NoMsgLine ==
    /\ form \in {"WX", "ToAll"}
    /\ Len(fed) = 5
    /\ \A j \in 1..3 : fed[j] \in Shape(form)[j].norm
    /\ fed[4] \in Shape(form)[4].norm \cup {":"}
    /\ fed[5] = ""

\* C22: for a WX or ToAll line with a callsign and the separator but no
\* message after it, parse returns a record whose msg is absent.
C22_EmptyMsgAbsent ==
    (pc = "parsed" /\ NoMsgLine) => res.ok /\ res.val.msg = None


\* the line begins with one of the prefixes the classifier knows
KnownPrefix == \E p \in Prefixes : BeginsWith(raw, p)

\* C23: parse trims nothing: a line with whitespace before a valid prefix
\* is refused with UnknownType, and a DX line with whitespace after its
\* locator is refused with InvalidContent.
C23_NoTrimming ==
    (pc = "parsed" /\ form \in SpotForms)
        => /\ KnownPrefix => parse(" " \o raw) = Err("UnknownType")
           /\ (Len(fed) >= 1 /\ fed[1] = " DX de") => res = Err("UnknownType")
           /\ (form = "DX" /\ WholeBut(10) /\ fed[10] = " JO62 ")
                 => res = Err("InvalidContent")

\* a DX line, accepted without the space after its locator, was refused with it
C23_Witness ==
    /\ Failed("InvalidContent") /\ form = "DX" /\ WholeBut(10) /\ fed[10] = " JO62 "
    /\ parse(SubSeq(raw, 1, Len(raw) - 1)).ok
    /\ parse(" " \o raw) = Err("UnknownType")

(***************************************************************************)
(* The errors.                                                             *)
(***************************************************************************)
\* the errors parse and parse_rbn return, MissingField apart
ErrorsReturned(f) ==
    IF f = "RBN" THEN {"InvalidContent", "InternalError"}
    ELSE {"UnknownType", "InvalidContent", "InternalError"}

\* C24: parse and parse_rbn never return MissingField: the outcome of a call
\* is a record, UnknownType (parse alone), InvalidContent or InternalError.
C24_NoMissingField ==
    pc = "parsed" => res.ok \/ res.err \in ErrorsReturned(form)

\* a line was accepted whose pattern matched with an optional group left out
C24_Witness ==
    /\ Succeeded /\ form = "WX" /\ WellFormed
    /\ res.val.utc = None /\ res.val.call_de = "OZ4AEC"


\* the digits s begins with, taken off
RECURSIVE SkipDigits(_)
SkipDigits(s) == IF Ch(s, 1) \in Digits THEN SkipDigits(Drop(s, 1)) ELSE s

SkipSign(s) == IF Ch(s, 1) \in {"+", "-"} THEN Drop(s, 1) ELSE s

\* s is a decimal number: digits with at most one point among them
IsDecimal(s) ==
    /\ \E i \in 1..Len(s) : Ch(s, i) \in Digits
    /\ SkipDigits(IF Ch(SkipDigits(s), 1) = "." THEN Drop(SkipDigits(s), 1)
                  ELSE SkipDigits(s)) = ""

\* t is a floating-point literal: [sign] decimal [(e|E) [sign] digits]
IsFloatLiteral(t) ==
    \/ IsDecimal(SkipSign(t))
    \/ \E k \in 2..(Len(t) - 1) :
          /\ Ch(t, k) \in {"e", "E"}
          /\ IsDecimal(SkipSign(SubSeq(t, 1, k - 1)))
          /\ SkipSign(Drop(t, k)) # ""
          /\ AllDigits(SkipSign(Drop(t, k)))

\* the frequency token, the second group of the DX pattern, in s
FreqToken(s) == CapGet(Captures(REGEX_PATTERN_DX, s), 2).v

\* C25: parse returns InternalError only for a line classified as DX, and
\* only when the frequency token the pattern captured is not a
\* floating-point literal; the lines of the other variants never give it.
C25_InternalErrorOnlyDxFreq ==
    (Failed("InternalError") /\ form \in SpotForms)
        => /\ starts_with(raw, "DX de")
           /\ Captures(REGEX_PATTERN_DX, raw).m
           /\ ~IsFloatLiteral(FreqToken(raw))

\* a DX line with a comma in its frequency gave InternalError
C25_Witness ==
    /\ Failed("InternalError") /\ form = "DX" /\ WholeBut(5)
    /\ FreqToken(raw) = "14025,0"


\* the signal strength token, the second group of the RBN pattern that matched
DbToken ==
    IF MatchesRbn1 THEN CapGet(Captures(REGEX_PATTERN_RBN1, raw), 2).v
    ELSE CapGet(Captures(REGEX_PATTERN_RBN2, raw), 2).v

\* C26: parse_rbn returns InternalError exactly when one of the two patterns
\* matches and the db token it captured is not a signed decimal integer; a
\* well-formed token that begins with '-' gives the negated value as db.
C26_InternalErrorIffBadDb ==
    (pc = "parsed" /\ form = "RBN")
        => /\ res = Err("InternalError")
                 <=> ((MatchesRbn1 \/ MatchesRbn2) /\ ~IsSignedDecimal(DbToken))
           /\ (res.ok /\ Ch(DbToken, 1) = "-")
                 => res.val.db = 0 - DecValue(Drop(DbToken, 1))

\* a whole comment with the strength 1-2 was matched and gave InternalError
C26_Witness ==
    /\ Failed("InternalError") /\ form = "RBN" /\ WholeBut(2)
    /\ MatchesRbn1 /\ DbToken = "1-2"

(***************************************************************************)
(* The classifier and the patterns.                                        *)
(***************************************************************************)
\* the classifier with its tests in the opposite order
ident_type_reversed(input) ==
    IF starts_with(input, "To Local de") \/ starts_with(input, "To LOCAL de")
    THEN Ok(ToLocal_new)
    ELSE IF starts_with(input, "To ALL de") THEN Ok(ToAll_new)
    ELSE IF starts_with(input, "WX de") THEN Ok(WX_new)
    ELSE IF starts_with(input, "WCY de") THEN Ok(WCY_new)
    ELSE IF starts_with(input, "WWV de") THEN Ok(WWV_new)
    ELSE IF starts_with(input, "DX de") THEN Ok(DX_new)
    ELSE Err("UnknownType")

\* the pattern re begins with ^: it matches at the start of a line or not at all
Anchored(re) == re.r.t = "cat" /\ Head(re.r.a).t = "bol"

\* the pattern re matches the line s
Matches(re, s) ==
    IF Anchored(re) THEN Run(<<re.r>>, s, 1, [j \in 1..re.ng |-> NoCap]).m
    ELSE Captures(re, s).m

\* the pattern of the variant v matches the line s
Accepted(v, s) == Matches(Regex_new(StaticOf(v)), s)

\* the variant the classifier finds for s, if it finds one
Classified(s) == IF ident_type(s).ok THEN {ident_type(s).val.type} ELSE {}

\* C27: at most one prefix of the classifier is a prefix of a line, so the
\* order of its tests does not matter; and a line that the pattern of a
\* variant matches is classified as that variant, never as UnknownType or
\* as another variant: only the pattern of the variant found can match.
C27_ClassifierAgrees ==
    (pc = "parsed" /\ form \in SpotForms)
        => /\ Cardinality({p \in Prefixes : BeginsWith(raw, p)}) <= 1
           /\ ident_type_reversed(raw) = ident_type(raw)
           /\ \A v \in SpotForms \ Classified(raw) : ~Accepted(v, raw)

\* a line with the prefix To Local de was matched by the ToLocal pattern
C27_Witness ==
    /\ Succeeded /\ form = "ToLocal" /\ BeginsWith(raw, "To Local de")
    /\ Accepted("ToLocal", raw) /\ res.val.type = "ToLocal"
    /\ \A v \in SpotForms \ {"ToLocal"} : ~Accepted(v, raw)

(***************************************************************************)
(* The comment of a DX line (piece 8, with the spaces around it) and the   *)
(* message of a WX, ToAll or ToLocal line.                                 *)
(***************************************************************************)
\* C28: the comment of a DX record, when present, is not empty and neither
\* begins nor ends with a space: the spaces between call_dx and the comment
\* and between the comment and the time are not part of it.
C28_CommentTrimmed ==
    (Succeeded /\ form = "DX" /\ res.val.comment.some)
        => /\ res.val.comment.v # ""
           /\ Ch(res.val.comment.v, 1) # " "
           /\ Ch(res.val.comment.v, Len(res.val.comment.v)) # " "

\* a DX line with spaces on both sides of its comment was accepted
C28_Witness ==
    /\ Succeeded /\ form = "DX" /\ WellFormed
    /\ fed[8] = "  599 into N. MI  " /\ res.val.comment = Some("599 into N. MI")

\* t occurs in s
Holds(s, t) == \E k \in 1..(Len(s) - Len(t) + 1) : SubSeq(s, k, k + Len(t) - 1) = t

\* C29: a DX line is accepted without a comment only where two spaces or
\* more follow call_dx, and a DX line that is well formed but for a single
\* space between call_dx and the time makes parse return InvalidContent.
C29_TwoSpacesBeforeTime ==
    /\ (Succeeded /\ form = "DX" /\ ~res.val.comment.some)
           => Holds(raw, res.val.call_dx \o "  ")
    /\ (pc = "parsed" /\ form = "DX" /\ WholeBut(8) /\ fed[8] = " ")
           => res = Err("InvalidContent")

\* "DX de DF2MX: 14036.1  DL8AW/P 2259Z" was rejected, and the same line with
\* spaces only before the time is accepted without a comment
C29_Witness ==
    /\ Failed("InvalidContent") /\ form = "DX" /\ WholeBut(8)
    /\ fed[8] = " " /\ fed[7] = "DL8AW/P" /\ fed[10] = ""
    /\ parse("DX de DF2MX: 14036.1  DL8AW/P    2259Z").ok
    /\ ~parse("DX de DF2MX: 14036.1  DL8AW/P    2259Z").val.comment.some

\* C30: the msg of a WX, ToAll or ToLocal record never begins with a space
\* or a colon: the run of spaces and colons before the message is taken as
\* the separator, whole.
C30_MsgStart ==
    (Succeeded /\ form \in {"WX", "ToAll", "ToLocal"} /\ res.val.msg.some)
        => Ch(res.val.msg.v, 1) \notin {" ", ":"}

\* a WX line whose text begins " : wet" after the separator was accepted
C30_Witness ==
    /\ Succeeded /\ form = "WX" /\ Len(fed) = 5
    /\ fed[4] = ": " /\ fed[5] = " : wet" /\ res.val.msg = Some("wet")

=============================================================================
